---- MODULE Spec2Model ----
(***************************************************************************)
(* State-machine model of the season-based name registry canister         *)
(* (src/src/lib.rs).  Every #[update] entry point is one action; the three *)
(* provisioning entry points are split at their single `.await` into a     *)
(* Call action (everything up to the await) and a Resume action            *)
(* (everything after it), so that other messages can run in between.       *)
(***************************************************************************)
EXTENDS Integers, Sequences, FiniteSets, Bags, TLC

\* ------------------------------------------------------------------ bounds
\* Host time runs from 0 to MaxTime.
MaxTime == 2
\* Largest number of seasons the admin creates.
MaxSeasons == 2
\* Largest number of calls simultaneously suspended at the factory await.
MaxPending == 2

\* ------------------------------------------------------- program constants
\* 365 * 24 * 60 * 60 * 1_000_000_000 ns; the model's time unit is one year.
Year == 1
\* season.price_icp * 100_000_000 converts the ICP price to e8s.
E8S == 100000000
\* length >= 5 is never a short name.
ShortLimit == 5
\* name.len() > 63 is invalid.
MaxNameLen == 63
\* set_custom_mcp_endpoint: an endpoint is at most 200 bytes.
MaxEndpointLen == 200
\* min_letters / max_letters may not exceed 64.
MaxLetters == 64

\* ------------------------------------------------------------ Option<T>
None == <<>>
Some(x) == <<x>>

\* ------------------------------------------------------------ input sets
InitAdmin == "admin"
Principals == {"admin", "u1", "u2"}
\* Principals a request may name as administrator of a record.
Administrators == {"u2"}
Operator == "op"
\* What create_domain_canister returns on success: Principal "aaaaa-aa".
CanisterId == "aaaaa-aa"
PaymentBlocks == {7}
Addresses == {"addr1"}

\* Names are sequences of characters.
NameAlice == <<"a", "l", "i", "c", "e">>
NameCarol == <<"c", "a", "r", "o", "l">>
NameAbc == <<"a", "b", "c">>
NameIcp == <<"i", "c", "p">>
NameHyphen == <<"-", "a">>
NameTest == <<"t", "e", "s", "t">>
\* A valid name of two characters, shorter than the 3-5 letter season admits.
NameIo == <<"i", "o">>
Names == {NameAlice, NameCarol, NameAbc, NameIcp, NameHyphen, NameTest}
\* A letter outside ASCII, which char::is_alphanumeric accepts and UTF-8
\* encodes in two bytes (U+00E9).
WideLetter == "U+00E9"
\* Three such letters: three characters, six bytes.
NameWide == <<WideLetter, WideLetter, WideLetter>>
\* char::is_alphanumeric: the letters and digits.  Of the characters outside
\* ASCII the model carries one letter; "-", " ", "." and "_" are not in the set.
LowercaseLetters ==
    {"a", "b", "c", "d", "e", "f", "g", "h", "i", "j", "k", "l", "m",
     "n", "o", "p", "q", "r", "s", "t", "u", "v", "w", "x", "y", "z"}
UppercaseLetters ==
    {"A", "B", "C", "D", "E", "F", "G", "H", "I", "J", "K", "L", "M",
     "N", "O", "P", "Q", "R", "S", "T", "U", "V", "W", "X", "Y", "Z"}
Digits == {"0", "1", "2", "3", "4", "5", "6", "7", "8", "9"}
AlphanumericChars == LowercaseLetters \cup UppercaseLetters \cup Digits \cup {WideLetter}

\* The number of bytes of a character's UTF-8 encoding.
CharBytes(ch) == IF ch = WideLetter THEN 2 ELSE 1

\* str::len: the length of a name in bytes.
RECURSIVE ByteLen(_)
ByteLen(name) ==
    IF name = <<>> THEN 0 ELSE CharBytes(Head(name)) + ByteLen(Tail(name))

\* CreateSeasonRequest values the admin submits.
Req(min, max, total, price) ==
    [min_letters |-> min, max_letters |-> max, total_allowed |-> total, price_icp |-> price]
ValidRequests == {Req(3, Some(5), 1, 2), Req(1, None, 2, 1)}
InvalidRequests == {Req(0, None, 1, 1), Req(65, None, 1, 1), Req(3, Some(2), 1, 1),
                    Req(3, Some(65), 1, 1), Req(3, Some(5), 0, 1), Req(3, Some(5), 1, 0)}
SeasonRequests == ValidRequests \cup InvalidRequests

\* An endpoint, as far as set_custom_mcp_endpoint looks at it: its scheme
\* prefix and its length.
Endpoint(scheme, len) == [scheme |-> scheme, len |-> len]
Endpoints == {None, Some(Endpoint("https://", 20)), Some(Endpoint("http://", 20)),
              Some(Endpoint("https://", 201))}

\* create_domain_canister as built: it awaits nothing and answers Ok with a
\* fixed principal, so a call that reaches it continues in the same message.
create_domain_canister == "Ok"

\* The values of Result<Principal, String>, the type the three callers handle
\* after the await: the answer of create_domain_canister as built, and the Err
\* their map_err closures and `?` take.  The build never produces Err; a
\* specification that draws the answer from this set, or lets other calls run
\* while one is at the await, is an envelope of the build: what holds in every
\* state of it holds of the build, what fails in it need not.
ProvisionOutcomes == {create_domain_canister, "Err"}

VARIABLES
    domains,          \* DOMAINS: name -> DomainRecord
    wallet,           \* WALLET_TO_DOMAIN: principal -> name
    seasons,          \* REGISTRATION_SEASONS: id -> RegistrationSeason
    next_season_id,   \* NEXT_SEASON_ID
    season_addresses, \* SEASON_ADDRESSES: id -> set of addresses
    admins,           \* ADMIN_PRINCIPALS
    short_name_mode,  \* SHORT_NAME_MODE
    approved,         \* APPROVED_SHORT_USERS
    reserved,         \* RESERVED_NAMES
    base_fee,         \* BASE_FEE
    now,              \* ic_cdk::api::time()
    pending,          \* bag of calls suspended at create_domain_canister(..).await
    last              \* the last call that returned or suspended, and its result

vars == <<domains, wallet, seasons, next_season_id, season_addresses, admins,
          short_name_mode, approved, reserved, base_fee, now, pending, last>>

\* Everything the canister stores (no clock, no in-flight calls, no result).
stores == <<domains, wallet, seasons, next_season_id, season_addresses, admins,
            short_name_mode, approved, reserved, base_fee>>

\* ------------------------------------------------------------ map helpers
\* HashMap::insert
Insert(m, k, v) == [x \in (DOMAIN m) \cup {k} |-> IF x = k THEN v ELSE m[x]]
\* HashMap::remove
Remove(m, k) == [x \in (DOMAIN m) \ {k} |-> m[x]]
\* HashMap::get(..).cloned()
Get(m, k) == IF k \in DOMAIN m THEN Some(m[k]) ELSE None

\* The record of a call's outcome.
\* `season` is the season the call selected, when it selected one.
Result(op, res, fee, season) == [op |-> op, res |-> res, fee |-> fee, season |-> season]

\* ------------------------------------------------------------ validator
is_valid_domain_name(name) ==
    /\ ~(Len(name) = 0 \/ ByteLen(name) > MaxNameLen)
    /\ ~(name[1] = "-" \/ name[Len(name)] = "-")
    /\ \A i \in 1..Len(name) : name[i] \in AlphanumericChars \/ name[i] = "-"

is_reserved_name(name) == name \in reserved

is_admin(p) == p \in admins

\* Mutant: an approved caller keeps its right in every mode.
can_register_short_domain_sticky(name, caller) ==
    IF ByteLen(name) >= ShortLimit THEN TRUE
    ELSE IF is_admin(caller) THEN TRUE
    ELSE short_name_mode = "Open" \/ caller \in approved

can_register_short_domain(name, caller) ==
    IF ByteLen(name) >= ShortLimit THEN TRUE
    ELSE IF is_admin(caller) THEN TRUE
    ELSE CASE short_name_mode = "Open" -> TRUE
           [] short_name_mode = "WhitelistOnly" -> caller \in approved
           [] short_name_mode = "Closed" -> FALSE

wallet_already_has_domain(w) == Get(wallet, w)

\* The availability test the three allocation paths share.
\* Mutant: the expiry of the stored record is not looked at.
is_available_unchecked(name) == TRUE

is_available(name) ==
    IF name \in DOMAIN domains THEN domains[name].expiration_time < now ELSE TRUE

\* get_domain_info's status derivation.
DomainStatus(name) ==
    IF domains[name].expiration_time > now THEN "Active" ELSE "Expired"

\* ------------------------------------------------------------ season ledger
\* Mutant: only a Completed season counts as closed.
ActiveSeasonIds_not_completed == {id \in DOMAIN seasons : seasons[id].status # "Completed"}

ActiveSeasonIds == {id \in DOMAIN seasons : seasons[id].status = "Active"}

\* Mutant: the check for an Active season never finds one.
has_active_season_blind == FALSE

has_active_season == \E id \in DOMAIN seasons : seasons[id].status = "Active"

\* Mutant: a season with no room left is still eligible.
find_applicable_season_any_room(name) ==
    LET len == ByteLen(name)
        eligible == {id \in DOMAIN seasons :
                        /\ seasons[id].status = "Active"
                        /\ len >= seasons[id].min_letters
                        /\ (seasons[id].max_letters = None \/ len <= seasons[id].max_letters[1])}
    IN {id \in eligible : \A j \in eligible : seasons[id].price_icp <= seasons[j].price_icp}

\* The ids min_by_key may return: the cheapest eligible seasons (the map's
\* iteration order decides among equal prices).
find_applicable_season(name) ==
    LET len == ByteLen(name)
        eligible == {id \in DOMAIN seasons :
                        /\ seasons[id].status = "Active"
                        /\ len >= seasons[id].min_letters
                        /\ (seasons[id].max_letters = None \/ len <= seasons[id].max_letters[1])
                        /\ seasons[id].registered_count < seasons[id].total_allowed}
    IN {id \in eligible : \A j \in eligible : seasons[id].price_icp <= seasons[j].price_icp}

\* Mutant: a full season is left Active.
complete_season_if_full_never(ss, id) == ss

\* The ledger after complete_season_if_full(id).
complete_season_if_full(ss, id) ==
    IF id \in DOMAIN ss /\ ss[id].registered_count >= ss[id].total_allowed
    THEN [ss EXCEPT ![id].status = "Completed"]
    ELSE ss

\* season.registered_count += 1, when the season exists.
\* Mutant: a slot is counted twice.
IncrementCount_twice(ss, id) ==
    IF id \in DOMAIN ss THEN [ss EXCEPT ![id].registered_count = @ + 2] ELSE ss

\* Mutant: a count that has reached the capacity is not raised further.
IncrementCount_capped(ss, id) ==
    IF id \in DOMAIN ss /\ ss[id].registered_count < ss[id].total_allowed
    THEN [ss EXCEPT ![id].registered_count = @ + 1]
    ELSE ss

IncrementCount(ss, id) ==
    IF id \in DOMAIN ss THEN [ss EXCEPT ![id].registered_count = @ + 1] ELSE ss

\* Mutant: giving a slot back reopens the season.
RollbackCount_reopen(ss, id) ==
    IF id \in DOMAIN ss
    THEN [ss EXCEPT ![id].registered_count = @ - 1, ![id].status = "Active"]
    ELSE ss

\* season.registered_count -= 1, when the season exists.
RollbackCount(ss, id) ==
    IF id \in DOMAIN ss THEN [ss EXCEPT ![id].registered_count = @ - 1] ELSE ss

\* Mutant: an address listed for any season passes for the season asked about.
is_address_in_season_any(id, address) ==
    \E other \in DOMAIN season_addresses : address \in season_addresses[other]

is_address_in_season(id, address) ==
    IF id \in DOMAIN season_addresses THEN address \in season_addresses[id] ELSE FALSE

\* ------------------------------------------------------------ init
\* BASE_FEE starts at 100_000_000 e8s.
BaseFee == E8S
ReservedAtInit ==
    {<<"i", "c", "p">>, <<"a", "p", "i">>, <<"w", "w", "w">>,
     <<"a", "d", "m", "i", "n">>, <<"r", "o", "o", "t">>,
     <<"s", "y", "s", "t", "e", "m">>, <<"r", "e", "g", "i", "s", "t", "r", "y">>,
     <<"c", "a", "n", "i", "s", "t", "e", "r">>,
     <<"d", "f", "i", "n", "i", "t", "y">>, <<"i", "c">>}

Init ==
    /\ domains = <<>>
    /\ wallet = <<>>
    /\ seasons = <<>>
    /\ next_season_id = 1
    /\ season_addresses = <<>>
    /\ admins = {InitAdmin}
    /\ short_name_mode = "WhitelistOnly"
    /\ approved = {}
    /\ reserved = ReservedAtInit
    /\ base_fee = BaseFee
    /\ now = 0
    /\ pending = EmptyBag
    /\ last = Result("init", "Ok", 0, None)

\* ------------------------------------------------------------ register_domain
\* Lines 295-327: the admission checks, in the code's order.
RegisterAdmission(caller, name) ==
    IF ~is_valid_domain_name(name) THEN "InvalidFormat"
    ELSE IF is_reserved_name(name) THEN "Reserved"
    ELSE IF ~can_register_short_domain(name, caller) THEN "ShortNameDenied"
    ELSE IF ~is_admin(caller) /\ wallet_already_has_domain(caller) # None
         THEN "WalletAlreadyOwns"
    ELSE IF ~is_available(name) THEN "NameUnavailable"
    ELSE "Ok"

\* A call returns an error before it reaches the factory: nothing is written.
Reject(op, res) ==
    /\ last' = Result(op, res, 0, None)
    /\ UNCHANGED <<stores, now, pending>>

\* A call has reached create_domain_canister(..).await: `pending` holds the
\* calls at that position, which have returned nothing yet.  As built the
\* awaited function has no await of its own, so the continuation runs in the
\* same message: the specifications of the build let no other call start
\* while a call is at this position (Idle) and continue it with the answer of
\* create_domain_canister.
Suspend(op, caller, name, who, administrator, payment_block, address, season, fee) ==
    /\ BagCardinality(pending) < MaxPending
    /\ pending' = pending (+) SetToBag({[op |-> op, caller |-> caller, name |-> name,
                                         who |-> who, administrator |-> administrator,
                                         payment_block |-> payment_block,
                                         address |-> address, season |-> season,
                                         fee |-> fee,
                                         is_admin_caller |-> is_admin(caller)]})
    /\ UNCHANGED last

\* Lines 339-352: the slot is taken before the await.
ReserveSlot(id) ==
    IF id \notin DOMAIN seasons THEN "SeasonNotFound"
    ELSE IF seasons[id].registered_count >= seasons[id].total_allowed THEN "SeasonFull"
    ELSE "Ok"

\* Mutant: the admin bypass is missing, an admin is priced like any caller.
SeasonChoice_no_bypass(caller, name) == {Some(id) : id \in find_applicable_season(name)}

\* Lines 329-337: the values `season_id` may take; none means the call
\* returns "No available registration season".
SeasonChoice(caller, name) ==
    IF is_admin(caller) THEN {None}
    ELSE {Some(id) : id \in find_applicable_season(name)}

\* Lines 330-337: `required_fee`.
RequiredFee(season) ==
    IF season = None THEN 0 ELSE seasons[season[1]].price_icp * E8S

\* Lines 291-360: register_domain up to the await.
RegisterCall(caller, name, administrator, payment_block) ==
    LET adm == RegisterAdmission(caller, name)
        choices == SeasonChoice(caller, name)
    IN IF adm # "Ok" THEN Reject("register", adm)
       ELSE IF choices = {} THEN Reject("register", "NoSeason")
       ELSE \E season \in choices :
              IF season = None
              THEN /\ Suspend("register", caller, name, caller, administrator,
                              payment_block, None, None, RequiredFee(None))
                   /\ UNCHANGED <<stores, now>>
              ELSE IF ReserveSlot(season[1]) # "Ok"
              THEN Reject("register", ReserveSlot(season[1]))
              ELSE /\ seasons' = IncrementCount(seasons, season[1])
                   /\ Suspend("register", caller, name, caller, administrator,
                              payment_block, None, season, RequiredFee(season))
                   /\ UNCHANGED <<domains, wallet, next_season_id, season_addresses,
                                  admins, short_name_mode, approved, reserved, base_fee, now>>

\* Mutant: the record expires the moment it is written.
NewRecord_no_term(owner, administrator, payment_block, gifted, season) ==
    [owner |-> owner, administrator |-> administrator, operator |-> Operator,
     canister_id |-> CanisterId, registration_time |-> now,
     expiration_time |-> now, last_payment_block |-> payment_block,
     custom_mcp_endpoint |-> None, was_gifted |-> gifted,
     registration_season_id |-> season]

\* The DomainRecord the three allocation paths build after the await.
NewRecord(owner, administrator, payment_block, gifted, season) ==
    [owner |-> owner, administrator |-> administrator, operator |-> Operator,
     canister_id |-> CanisterId, registration_time |-> now,
     expiration_time |-> now + Year, last_payment_block |-> payment_block,
     custom_mcp_endpoint |-> None, was_gifted |-> gifted,
     registration_season_id |-> season]

\* Mutant: the closure gives two slots back.
RegisterRollback_twice(ss, season) ==
    IF season # None THEN RollbackCount(RollbackCount(ss, season[1]), season[1]) ELSE ss

\* Mutant: the closure forgets the count.
RegisterRollback_none(ss, season) == ss

\* The ledger after register_domain's map_err closure (lines 360-370).
RegisterRollback(ss, season) ==
    IF season # None THEN RollbackCount(ss, season[1]) ELSE ss

\* Mutant: the slot reserved before the await is counted again at the commit.
RegisterComplete_recount(ss, season) ==
    IF season # None
    THEN complete_season_if_full(IncrementCount(ss, season[1]), season[1])
    ELSE ss

\* The ledger after register_domain's lines 394-397.
RegisterComplete(ss, season) ==
    IF season # None THEN complete_season_if_full(ss, season[1]) ELSE ss

\* Lines 360-408: register_domain from the factory's answer on.
RegisterResume(call, outcome) ==
    /\ call.op = "register"
    /\ BagIn(call, pending)
    /\ pending' = pending (-) SetToBag({call})
    /\ IF outcome = "Err"
       THEN /\ seasons' = RegisterRollback(seasons, call.season)
            /\ last' = Result("register", "ProvisioningFailed", 0, call.season)
            /\ UNCHANGED <<domains, wallet>>
       ELSE /\ domains' = Insert(domains, call.name,
                                 NewRecord(call.caller, call.administrator,
                                           call.payment_block, call.is_admin_caller,
                                           call.season))
            /\ wallet' = Insert(wallet, call.caller, call.name)
            /\ seasons' = RegisterComplete(seasons, call.season)
            /\ last' = Result("register", "Ok", call.fee, call.season)
    /\ UNCHANGED <<next_season_id, season_addresses, admins, short_name_mode,
                   approved, reserved, base_fee, now>>

\* ------------------------------------------------------------ admin_gift_domain
\* Lines 415-444 (and 513-542): the admission checks of the two admin paths.
AdminAdmission(caller, name, recipient) ==
    IF ~is_admin(caller) THEN "NotAdmin"
    ELSE IF ~is_valid_domain_name(name) THEN "InvalidFormat"
    ELSE IF is_reserved_name(name) THEN "Reserved"
    ELSE IF ~is_available(name) THEN "NameUnavailable"
    ELSE IF wallet_already_has_domain(recipient) # None THEN "RecipientAlreadyOwns"
    ELSE "Ok"

\* Lines 411-469: admin_gift_domain up to the await.  The capacity is read
\* here; the count is not changed before the await.
GiftCall(caller, name, recipient, administrator) ==
    LET adm == AdminAdmission(caller, name, recipient)
    IN IF adm # "Ok" THEN Reject("gift", adm)
       ELSE IF ActiveSeasonIds = {}
       THEN Reject("gift", "NoActiveSeason")
       ELSE \E id \in ActiveSeasonIds :
              IF seasons[id].registered_count >= seasons[id].total_allowed
              THEN Reject("gift", "SeasonFull")
              ELSE /\ Suspend("gift", caller, name, recipient, administrator, 0,
                              None, Some(id), 0)
                   /\ UNCHANGED <<stores, now>>

\* Mutant: an admin allocation takes no slot of the season.
AdminConsumeSlot_free(ss, season) == ss

\* The ledger after lines 493-501 (and 597-603): count, then completion.
AdminConsumeSlot(ss, season) ==
    IF season # None
    THEN complete_season_if_full(IncrementCount(ss, season[1]), season[1])
    ELSE ss

\* Lines 469-506: admin_gift_domain from the factory's answer on.
GiftResume(call, outcome) ==
    /\ call.op = "gift"
    /\ BagIn(call, pending)
    /\ pending' = pending (-) SetToBag({call})
    /\ IF outcome = "Err"
       THEN /\ last' = Result("gift", "ProvisioningFailed", 0, call.season)
            /\ UNCHANGED <<domains, wallet, seasons>>
       ELSE /\ domains' = Insert(domains, call.name,
                                 NewRecord(call.who, call.administrator, 0, TRUE,
                                           call.season))
            /\ wallet' = Insert(wallet, call.who, call.name)
            /\ seasons' = AdminConsumeSlot(seasons, call.season)
            /\ last' = Result("gift", "Ok", 0, call.season)
    /\ UNCHANGED <<next_season_id, season_addresses, admins, short_name_mode,
                   approved, reserved, base_fee, now>>

\* ------------------------------------------- admin_create_domain_with_address
\* Lines 509-573: admin_create_domain_with_address up to the await.
AdminCreateCall(caller, name, recipient, administrator, address) ==
    LET adm == AdminAdmission(caller, name, recipient)
    IN IF adm # "Ok" THEN Reject("admin_create", adm)
       ELSE IF ActiveSeasonIds = {}
       THEN Reject("admin_create", "NoActiveSeason")
       ELSE \E id \in ActiveSeasonIds :
              IF seasons[id].registered_count >= seasons[id].total_allowed
              THEN Reject("admin_create", "SeasonFull")
              ELSE IF ~is_address_in_season(id, address)
              THEN Reject("admin_create", "AddressNotAuthorized")
              ELSE /\ Suspend("admin_create", caller, name, recipient, administrator, 0,
                              Some(address), Some(id), 0)
                   /\ UNCHANGED <<stores, now>>

\* Lines 573-608: admin_create_domain_with_address from the factory's answer on.
AdminCreateResume(call, outcome) ==
    /\ call.op = "admin_create"
    /\ BagIn(call, pending)
    /\ pending' = pending (-) SetToBag({call})
    /\ IF outcome = "Err"
       THEN /\ last' = Result("admin_create", "ProvisioningFailed", 0, call.season)
            /\ UNCHANGED <<domains, wallet, seasons>>
       ELSE /\ domains' = Insert(domains, call.name,
                                 NewRecord(call.who, call.administrator, 0, FALSE,
                                           call.season))
            /\ wallet' = Insert(wallet, call.who, call.name)
            /\ seasons' = AdminConsumeSlot(seasons, call.season)
            /\ last' = Result("admin_create", "Ok", 0, call.season)
    /\ UNCHANGED <<next_season_id, season_addresses, admins, short_name_mode,
                   approved, reserved, base_fee, now>>

\* ------------------------------------------------ admin_add_address_to_season
\* Mutant: an address is added to any season that exists.
AddAddressCheck_any_status(id) ==
    IF id \in DOMAIN seasons THEN "Ok" ELSE "SeasonNotFound"

\* add_address_to_season's verdict on the season's status.
AddAddressCheck(id) ==
    IF id \notin DOMAIN seasons THEN "SeasonNotFound"
    ELSE IF seasons[id].status = "Active" THEN "Ok"
    ELSE "SeasonNotActive"

AddAddress(caller, id, address) ==
    IF ~is_admin(caller) THEN Reject("add_address", "NotAdmin")
    ELSE IF AddAddressCheck(id) # "Ok"
    THEN Reject("add_address", AddAddressCheck(id))
    ELSE /\ season_addresses' =
               Insert(season_addresses, id,
                      (IF id \in DOMAIN season_addresses THEN season_addresses[id] ELSE {})
                          \cup {address})
         /\ last' = Result("add_address", "Ok", 0, Some(id))
         /\ UNCHANGED <<domains, wallet, seasons, next_season_id, admins,
                        short_name_mode, approved, reserved, base_fee, now, pending>>

\* ------------------------------------------------- create_registration_season
\* Mutant: a price of 0 is let through.
CreateSeasonCheck_free(caller, req) ==
    IF ~is_admin(caller) THEN "NotAdmin"
    ELSE IF req.min_letters = 0 \/ req.min_letters > MaxLetters THEN "InvalidMin"
    ELSE IF req.max_letters # None
            /\ (req.max_letters[1] < req.min_letters \/ req.max_letters[1] > MaxLetters)
         THEN "InvalidMax"
    ELSE IF req.total_allowed = 0 THEN "InvalidTotal"
    ELSE IF has_active_season THEN "ActiveSeasonExists"
    ELSE "Ok"

\* Lines 1001-1026: the checks, in the code's order.
CreateSeasonCheck(caller, req) ==
    IF ~is_admin(caller) THEN "NotAdmin"
    ELSE IF req.min_letters = 0 \/ req.min_letters > MaxLetters THEN "InvalidMin"
    ELSE IF req.max_letters # None
            /\ (req.max_letters[1] < req.min_letters \/ req.max_letters[1] > MaxLetters)
         THEN "InvalidMax"
    ELSE IF req.total_allowed = 0 THEN "InvalidTotal"
    ELSE IF req.price_icp = 0 THEN "InvalidPrice"
    ELSE IF has_active_season THEN "ActiveSeasonExists"
    ELSE "Ok"

\* Lines 1034-1044: the season a request creates.
NewSeason(id, caller, req) ==
    [season_id |-> id, min_letters |-> req.min_letters, max_letters |-> req.max_letters,
     total_allowed |-> req.total_allowed, registered_count |-> 0,
     price_icp |-> req.price_icp, created_by |-> caller, created_at |-> now,
     status |-> "Active"]

\* Mutant: the season id is allocated before the request is checked.
CreateSeason_id_first(caller, req) ==
    LET chk == CreateSeasonCheck(caller, req)
    IN /\ next_season_id <= MaxSeasons
       /\ next_season_id' = next_season_id + 1
       /\ IF chk # "Ok"
          THEN /\ last' = Result("create_season", chk, 0, None)
               /\ UNCHANGED seasons
          ELSE /\ seasons' = Insert(seasons, next_season_id,
                                    NewSeason(next_season_id, caller, req))
               /\ last' = Result("create_season", "Ok", 0, Some(next_season_id))
       /\ UNCHANGED <<domains, wallet, season_addresses, admins, short_name_mode,
                      approved, reserved, base_fee, now, pending>>

\* Mutant: NEXT_SEASON_ID is read but not advanced.
CreateSeason_same_id(caller, req) ==
    LET chk == CreateSeasonCheck(caller, req)
    IN IF chk # "Ok" THEN Reject("create_season", chk)
       ELSE /\ next_season_id <= MaxSeasons
            /\ seasons' = Insert(seasons, next_season_id,
                                 NewSeason(next_season_id, caller, req))
            /\ last' = Result("create_season", "Ok", 0, Some(next_season_id))
            /\ UNCHANGED <<domains, wallet, next_season_id, season_addresses, admins,
                           short_name_mode, approved, reserved, base_fee, now, pending>>

\* Lines 997-1051: every check precedes the first write.
CreateSeason(caller, req) ==
    LET chk == CreateSeasonCheck(caller, req)
    IN IF chk # "Ok" THEN Reject("create_season", chk)
       ELSE /\ next_season_id <= MaxSeasons
            /\ next_season_id' = next_season_id + 1
            /\ seasons' = Insert(seasons, next_season_id,
                                 NewSeason(next_season_id, caller, req))
            /\ last' = Result("create_season", "Ok", 0, Some(next_season_id))
            /\ UNCHANGED <<domains, wallet, season_addresses, admins, short_name_mode,
                           approved, reserved, base_fee, now, pending>>

\* ---------------------------------------------------------- deactivate_season
\* Mutant: deactivation also gives the season's slots back.
DeactivateStatus_reset(ss, id) ==
    [ss EXCEPT ![id].status = "Deactivated", ![id].registered_count = 0]

\* Lines 1061-1070: the status is overwritten whatever it was.
DeactivateStatus(ss, id) == [ss EXCEPT ![id].status = "Deactivated"]

\* Mutant: deactivate_season does not look at the caller.
DeactivateSeason_unguarded(caller, id) ==
    IF id \notin DOMAIN seasons
    THEN Reject("deactivate", "SeasonNotFound")
    ELSE /\ seasons' = DeactivateStatus(seasons, id)
         /\ last' = Result("deactivate", "Ok", 0, Some(id))
         /\ UNCHANGED <<domains, wallet, next_season_id, season_addresses, admins,
                        short_name_mode, approved, reserved, base_fee, now, pending>>

DeactivateSeason(caller, id) ==
    IF ~is_admin(caller) THEN Reject("deactivate", "NotAdmin")
    ELSE IF id \notin DOMAIN seasons
    THEN Reject("deactivate", "SeasonNotFound")
    ELSE /\ seasons' = DeactivateStatus(seasons, id)
         /\ last' = Result("deactivate", "Ok", 0, Some(id))
         /\ UNCHANGED <<domains, wallet, next_season_id, season_addresses, admins,
                        short_name_mode, approved, reserved, base_fee, now, pending>>

\* -------------------------------------------------- transfer_domain_ownership
\* Mutant: the new owner's wallet entry is not looked at.
TransferCheck_any_new_owner(caller, name, new_owner) ==
    IF name \notin DOMAIN domains THEN "NotFound"
    ELSE IF caller # domains[name].owner /\ caller # domains[name].administrator
    THEN "Unauthorized"
    ELSE "Ok"

\* Mutant: a global admin passes the authorization check on any record.
TransferCheck_admin_override(caller, name, new_owner) ==
    IF name \notin DOMAIN domains THEN "NotFound"
    ELSE IF caller # domains[name].owner /\ caller # domains[name].administrator
            /\ ~is_admin(caller)
    THEN "Unauthorized"
    ELSE IF ~is_admin(new_owner) /\ wallet_already_has_domain(new_owner) # None
    THEN "NewOwnerAlreadyOwns"
    ELSE "Ok"

\* Lines 1190-1204: the checks, in the code's order.
TransferCheck(caller, name, new_owner) ==
    IF name \notin DOMAIN domains THEN "NotFound"
    ELSE IF caller # domains[name].owner /\ caller # domains[name].administrator
    THEN "Unauthorized"
    ELSE IF ~is_admin(new_owner) /\ wallet_already_has_domain(new_owner) # None
    THEN "NewOwnerAlreadyOwns"
    ELSE "Ok"

\* Mutant: the old owner's entry is left in the index.
TransferWallet_keep(w, old_owner, new_owner, name) == Insert(w, new_owner, name)

\* Lines 1216-1223: the old owner's entry goes, the new owner's is written.
TransferWallet(w, old_owner, new_owner, name) ==
    Insert(Remove(w, old_owner), new_owner, name)

Transfer(caller, name, new_owner) ==
    LET chk == TransferCheck(caller, name, new_owner)
    IN IF chk # "Ok" THEN Reject("transfer", chk)
       ELSE /\ domains' = [domains EXCEPT ![name].owner = new_owner]
            /\ wallet' = TransferWallet(wallet, domains[name].owner, new_owner, name)
            /\ last' = Result("transfer", "Ok", 0, None)
            /\ UNCHANGED <<seasons, next_season_id, season_addresses, admins,
                           short_name_mode, approved, reserved, base_fee, now, pending>>

\* ------------------------------------------------------ add_admin, remove_admin
AddAdmin(caller, new_admin) ==
    IF ~is_admin(caller) THEN Reject("add_admin", "NotAdmin")
    ELSE /\ admins' = admins \cup {new_admin}
         /\ last' = Result("add_admin", "Ok", 0, None)
         /\ UNCHANGED <<domains, wallet, seasons, next_season_id, season_addresses,
                        short_name_mode, approved, reserved, base_fee, now, pending>>

\* Mutant: the last admin may be removed.
RemoveAdmin_no_floor(caller, admin_to_remove) ==
    IF ~is_admin(caller)
    THEN Reject("remove_admin", "NotAdmin")
    ELSE /\ admins' = admins \ {admin_to_remove}
         /\ last' = Result("remove_admin", "Ok", 0, None)
         /\ UNCHANGED <<domains, wallet, seasons, next_season_id, season_addresses,
                        short_name_mode, approved, reserved, base_fee, now, pending>>

RemoveAdmin(caller, admin_to_remove) ==
    IF ~is_admin(caller)
    THEN Reject("remove_admin", "NotAdmin")
    ELSE IF Cardinality(admins) <= 1
    THEN Reject("remove_admin", "LastAdmin")
    ELSE /\ admins' = admins \ {admin_to_remove}
         /\ last' = Result("remove_admin", "Ok", 0, None)
         /\ UNCHANGED <<domains, wallet, seasons, next_season_id, season_addresses,
                        short_name_mode, approved, reserved, base_fee, now, pending>>

\* ---------------------------------------------------------- add_reserved_name
AddReservedName(caller, name) ==
    IF ~is_admin(caller) THEN Reject("add_reserved_name", "NotAdmin")
    ELSE /\ reserved' = reserved \cup {name}
         /\ last' = Result("add_reserved_name", "Ok", 0, None)
         /\ UNCHANGED <<domains, wallet, seasons, next_season_id, season_addresses,
                        admins, short_name_mode, approved, base_fee, now, pending>>

\* ----------------------------------------------- approve_user_for_short_names
ApproveUser(caller, user) ==
    IF ~is_admin(caller) THEN Reject("approve_user", "NotAdmin")
    ELSE /\ approved' = approved \cup {user}
         /\ last' = Result("approve_user", "Ok", 0, None)
         /\ UNCHANGED <<domains, wallet, seasons, next_season_id, season_addresses,
                        admins, short_name_mode, reserved, base_fee, now, pending>>

\* ------------------------------------------------- revoke_short_name_approval
RevokeApproval(caller, user) ==
    IF ~is_admin(caller) THEN Reject("revoke_approval", "NotAdmin")
    ELSE /\ approved' = approved \ {user}
         /\ last' = Result("revoke_approval", "Ok", 0, None)
         /\ UNCHANGED <<domains, wallet, seasons, next_season_id, season_addresses,
                        admins, short_name_mode, reserved, base_fee, now, pending>>

\* -------------------------------------------------------- set_short_name_mode
SetShortNameMode(caller, mode) ==
    IF ~is_admin(caller) THEN Reject("set_short_name_mode", "NotAdmin")
    ELSE /\ short_name_mode' = mode
         /\ last' = Result("set_short_name_mode", "Ok", 0, None)
         /\ UNCHANGED <<domains, wallet, seasons, next_season_id, season_addresses,
                        admins, approved, reserved, base_fee, now, pending>>

\* --------------------------------------------------------------- set_base_fee
SetBaseFee(caller, new_fee) ==
    IF ~is_admin(caller) THEN Reject("set_base_fee", "NotAdmin")
    ELSE /\ base_fee' = new_fee
         /\ last' = Result("set_base_fee", "Ok", 0, None)
         /\ UNCHANGED <<domains, wallet, seasons, next_season_id, season_addresses,
                        admins, short_name_mode, approved, reserved, now, pending>>

\* --------------------------------------------------------------- renew_domain
\* Lines 650-656: the checks, in the code's order.
RenewCheck(caller, name) ==
    IF name \notin DOMAIN domains THEN "NotFound"
    ELSE IF caller # domains[name].owner /\ caller # domains[name].administrator
    THEN "Unauthorized"
    ELSE "Ok"

\* Line 163: calculate_renewal_fee reads BASE_FEE.
calculate_renewal_fee == base_fee

\* Mutant: the new term is counted from the time of the call.
Renewed_from_now(rec, payment_block) ==
    [rec EXCEPT !.expiration_time = now + Year, !.last_payment_block = payment_block]

\* Lines 661-663: the record a renewal writes back.
Renewed(rec, payment_block) ==
    [rec EXCEPT !.expiration_time = @ + Year, !.last_payment_block = payment_block]

Renew(caller, name, payment_block) ==
    LET chk == RenewCheck(caller, name)
    IN IF chk # "Ok" THEN Reject("renew", chk)
       ELSE /\ domains[name].expiration_time <= MaxTime
            /\ domains' = [domains EXCEPT ![name] = Renewed(@, payment_block)]
            /\ last' = Result("renew", "Ok",
                               IF is_admin(caller) THEN 0 ELSE calculate_renewal_fee, None)
            /\ UNCHANGED <<wallet, seasons, next_season_id, season_addresses, admins,
                           short_name_mode, approved, reserved, base_fee, now, pending>>

\* ---------------------------------------------------- set_custom_mcp_endpoint
\* Lines 685-700: the checks, in the code's order.
EndpointCheck(caller, name, custom_endpoint) ==
    IF name \notin DOMAIN domains THEN "NotFound"
    ELSE IF caller # domains[name].owner /\ caller # domains[name].administrator
    THEN "Unauthorized"
    ELSE IF custom_endpoint # None /\ custom_endpoint[1].scheme # "https://"
    THEN "EndpointNotHttps"
    ELSE IF custom_endpoint # None /\ custom_endpoint[1].len > MaxEndpointLen
    THEN "EndpointTooLong"
    ELSE "Ok"

SetCustomMcpEndpoint(caller, name, custom_endpoint) ==
    LET chk == EndpointCheck(caller, name, custom_endpoint)
    IN IF chk # "Ok" THEN Reject("set_custom_mcp_endpoint", chk)
       ELSE /\ domains' = [domains EXCEPT ![name].custom_mcp_endpoint = custom_endpoint]
            /\ last' = Result("set_custom_mcp_endpoint", "Ok", 0, None)
            /\ UNCHANGED <<wallet, seasons, next_season_id, season_addresses, admins,
                           short_name_mode, approved, reserved, base_fee, now, pending>>

\* ------------------------------------------------------------ host clock
Tick ==
    /\ now < MaxTime
    /\ now' = now + 1
    /\ UNCHANGED <<stores, pending, last>>

\* ------------------------------------------------------------ specification
PendingCalls == BagToSet(pending)
SeasonIds == 1..(MaxSeasons + 1)

\* The season ledger under concurrent allocation.  The admin creates and
\* deactivates seasons and fills allowlists; "admin" and "u1" register, "u2"
\* receives gifts and admin creations; all calls are for one name, so that
\* the ledger, not the registry, carries the state.
LedgerNames == {NameAlice}
LedgerRequests == {Req(3, Some(5), 1, 2)}
LedgerNext ==
    \/ \E c \in {"admin", "u1"}, n \in LedgerNames, a \in Administrators,
          b \in PaymentBlocks : RegisterCall(c, n, a, b)
    \/ \E n \in LedgerNames, a \in Administrators : GiftCall(InitAdmin, n, "u2", a)
    \/ \E n \in LedgerNames, a \in Administrators, addr \in Addresses :
          AdminCreateCall(InitAdmin, n, "u2", a, addr)
    \/ \E call \in PendingCalls, o \in ProvisionOutcomes : RegisterResume(call, o)
    \/ \E call \in PendingCalls, o \in ProvisionOutcomes : GiftResume(call, o)
    \/ \E call \in PendingCalls, o \in ProvisionOutcomes : AdminCreateResume(call, o)
    \/ \E id \in SeasonIds, addr \in Addresses : AddAddress(InitAdmin, id, addr)
    \/ \E req \in LedgerRequests : CreateSeason(InitAdmin, req)
    \/ \E id \in SeasonIds : DeactivateSeason(InitAdmin, id)

SpecLedger == Init /\ [][LedgerNext]_vars

\* The registry and the wallet index.  One season with room for every
\* allocation is opened once; the admin and two users register two names
\* concurrently and names are transferred.  The clock stands still.
RegistryNames == {NameAlice, NameCarol}
RegistryRequests == {Req(1, None, 4, 1)}
RegistryNext ==
    \/ \E req \in RegistryRequests : next_season_id = 1 /\ CreateSeason(InitAdmin, req)
    \/ \E c \in Principals, n \in RegistryNames, a \in Administrators,
          b \in PaymentBlocks : RegisterCall(c, n, a, b)
    \/ \E call \in PendingCalls, o \in ProvisionOutcomes : RegisterResume(call, o)
    \/ \E c \in Principals, n \in RegistryNames, p \in Principals : Transfer(c, n, p)

SpecRegistry == Init /\ [][RegistryNext]_vars

\* Expiry and re-registration.  The clock runs; every principal registers
\* and transfers the one name.
ExpiryNames == {NameAlice}
ExpiryNext ==
    \/ \E req \in RegistryRequests : next_season_id = 1 /\ CreateSeason(InitAdmin, req)
    \/ \E c \in Principals, n \in ExpiryNames, a \in Administrators,
          b \in PaymentBlocks : RegisterCall(c, n, a, b)
    \/ \E call \in PendingCalls, o \in ProvisionOutcomes : RegisterResume(call, o)
    \/ \E c \in Principals, n \in ExpiryNames, p \in Principals : Transfer(c, n, p)
    \/ Tick

SpecExpiry == Init /\ [][ExpiryNext]_vars

\* The canister as it is built from src/: create_domain_canister answers Ok
\* without an inter-canister call, so a call that reaches it completes before
\* any other message is taken.
SerialNames == {NameAlice, NameCarol}
Idle == pending = EmptyBag
SerialNext ==
    \/ Idle /\ next_season_id = 1
            /\ \E req \in RegistryRequests : CreateSeason(InitAdmin, req)
    \/ Idle /\ \E c \in Principals, n \in SerialNames, a \in Administrators,
                  b \in PaymentBlocks : RegisterCall(c, n, a, b)
    \/ Idle /\ \E c \in Principals, n \in SerialNames, p \in Principals :
                  Transfer(c, n, p)
    \/ Idle /\ AddAdmin(InitAdmin, "u1")
    \/ Idle /\ RemoveAdmin(InitAdmin, "u1")
    \/ Idle /\ Tick
    \/ \E call \in PendingCalls : RegisterResume(call, create_domain_canister)

SpecSerial == Init /\ [][SerialNext]_vars

\* Gifts in the canister as built (calls run to completion): names are
\* registered and transferred, the admin set changes, and the admin gifts.
GiftNames == {NameAlice, NameCarol, NameAbc}
GiftNext ==
    \/ Idle /\ next_season_id = 1
            /\ \E req \in RegistryRequests : CreateSeason(InitAdmin, req)
    \/ Idle /\ \E c \in {"admin", "u1"}, n \in {NameAlice, NameCarol},
                  a \in Administrators, b \in PaymentBlocks : RegisterCall(c, n, a, b)
    \/ Idle /\ \E c \in {"admin", "u1"}, n \in {NameAlice, NameCarol},
                  p \in Principals : Transfer(c, n, p)
    \/ Idle /\ AddAdmin(InitAdmin, "u1")
    \/ Idle /\ RemoveAdmin(InitAdmin, "u1")
    \/ Idle /\ \E n \in GiftNames, r \in {"u1", "u2"}, a \in Administrators :
                  GiftCall(InitAdmin, n, r, a)
    \/ \E call \in PendingCalls : RegisterResume(call, create_domain_canister)
    \/ \E call \in PendingCalls : GiftResume(call, create_domain_canister)

SpecGift == Init /\ [][GiftNext]_vars

\* Pricing: seasons of both shapes are opened, filled and deactivated while
\* two users register a four-letter and a five-letter name.
PricingNames == {NameTest, NameAlice}
PricingNext ==
    \/ \E req \in ValidRequests : CreateSeason(InitAdmin, req)
    \/ \E id \in SeasonIds : DeactivateSeason(InitAdmin, id)
    \/ \E c \in {"u1", "u2"}, n \in PricingNames, a \in Administrators,
          b \in PaymentBlocks : RegisterCall(c, n, a, b)
    \/ \E call \in PendingCalls, o \in ProvisionOutcomes : RegisterResume(call, o)

SpecPricing == Init /\ [][PricingNext]_vars

\* The admin set: every principal calls every admin-privileged entry point
\* while admins are added and removed.  Calls run to completion.  The policy
\* setters are called with the values already stored, except the approval.
NewFees == {E8S, 2 * E8S}
AdminsNext ==
    \/ Idle /\ \E c \in Principals : AddAdmin(c, "u1")
    \/ Idle /\ \E c \in Principals, p \in {"admin", "u1"} : RemoveAdmin(c, p)
    \/ Idle /\ \E c \in Principals, req \in LedgerRequests : CreateSeason(c, req)
    \/ Idle /\ \E c \in Principals, id \in {1} : DeactivateSeason(c, id)
    \/ Idle /\ \E c \in Principals, addr \in Addresses : AddAddress(c, 1, addr)
    \/ Idle /\ \E c \in Principals, a \in Administrators : GiftCall(c, NameAlice, "u2", a)
    \/ Idle /\ \E c \in Principals, a \in Administrators, addr \in Addresses :
                  AdminCreateCall(c, NameAlice, "u2", a, addr)
    \/ Idle /\ \E c \in Principals : AddReservedName(c, NameIcp)
    \/ Idle /\ \E c \in Principals : ApproveUser(c, "u1")
    \/ Idle /\ \E c \in Principals : RevokeApproval(c, "u1")
    \/ Idle /\ \E c \in Principals : SetShortNameMode(c, "WhitelistOnly")
    \/ Idle /\ \E c \in Principals : SetBaseFee(c, BaseFee)
    \/ \E call \in PendingCalls : GiftResume(call, create_domain_canister)
    \/ \E call \in PendingCalls : AdminCreateResume(call, create_domain_canister)

SpecAdmins == Init /\ [][AdminsNext]_vars

\* Admission: every entry point is called with arguments and callers that
\* take its early returns; only the allocation paths and the season operations
\* also succeed, to build the states the later rejections depend on.
AdmissionNames == {NameAlice, NameAbc, NameIcp, NameHyphen}
AdmissionCallers == {"admin", "u1"}
AdmissionRequests == LedgerRequests \cup InvalidRequests
AdmissionEndpoints == {Some(Endpoint("http://", 20)), Some(Endpoint("https://", 201))}
AdmissionNext ==
    \/ \E n \in AdmissionNames, a \in Administrators, b \in PaymentBlocks :
          RegisterCall("u1", n, a, b)
    \/ \E c \in AdmissionCallers, n \in AdmissionNames, a \in Administrators :
          GiftCall(c, n, "u2", a)
    \/ \E c \in AdmissionCallers, n \in {NameAlice, NameIcp, NameHyphen},
          a \in Administrators, addr \in Addresses : AdminCreateCall(c, n, "u2", a, addr)
    \/ \E call \in PendingCalls, o \in ProvisionOutcomes : RegisterResume(call, o)
    \/ \E call \in PendingCalls, o \in ProvisionOutcomes : GiftResume(call, o)
    \/ \E call \in PendingCalls, o \in ProvisionOutcomes : AdminCreateResume(call, o)
    \/ \E c \in AdmissionCallers, id \in {1, next_season_id}, addr \in Addresses :
          AddAddress(c, id, addr)
    \/ \E c \in AdmissionCallers, req \in AdmissionRequests : CreateSeason(c, req)
    \/ \E c \in AdmissionCallers, id \in {1, next_season_id} : DeactivateSeason(c, id)
    \/ \E c \in AdmissionCallers : Transfer(c, NameAlice, "u1")
    \/ AddAdmin("u1", "u1")
    \/ \E c \in AdmissionCallers : RemoveAdmin(c, "u2")
    \/ AddReservedName("u1", NameAlice)
    \/ ApproveUser("u1", "u1")
    \/ RevokeApproval("u1", "u1")
    \/ SetShortNameMode("u1", "Open")
    \/ Renew("admin", NameAlice, 7)
    \/ \E c \in AdmissionCallers, e \in AdmissionEndpoints :
          SetCustomMcpEndpoint(c, NameAlice, e)

SpecAdmission == Init /\ [][AdmissionNext]_vars

\* ================================================================ claims
\* ---------------------------------------------------------------- C1
\* C1: in every reachable state, also while allocation calls are suspended at
\* the factory, at most one season is Active; and a create_season call made
\* while some season is Active is rejected and adds no season.
CreateWhileActiveRejected ==
    \A c \in Principals, req \in SeasonRequests \cup LedgerRequests :
        (ActiveSeasonIds # {} /\ CreateSeason(c, req))
            => /\ last'.op = "create_season"
               /\ last'.res # "Ok"
               /\ seasons' = seasons
               /\ next_season_id' = next_season_id

C1_AtMostOneActiveSeason ==
    /\ [](Cardinality(ActiveSeasonIds) <= 1)
    /\ [][CreateWhileActiveRejected]_vars

\* A create_season call was rejected because a season is Active, while a call
\* is suspended at the factory.
C1_Witness ==
    /\ last.op = "create_season"
    /\ last.res = "ActiveSeasonExists"
    /\ Cardinality(ActiveSeasonIds) = 1
    /\ pending # EmptyBag

C6_TerminalStatus ==
    [][\A id \in DOMAIN seasons :
          seasons[id].status # "Active"
              => id \in DOMAIN seasons' /\ seasons'[id].status = seasons[id].status]_vars

\* ---------------------------------------------------------------- C8
\* C8: a provisioning failure in register, admin_gift or
\* admin_create_with_address is returned, writes no record and no wallet
\* entry, and leaves the ledger as if the call had never started: the only
\* thing such a call wrote before the await is one slot of the season a
\* non-admin register selected, and the failure takes exactly that slot back.
HoldsSlot(call) == call.op = "register" /\ call.season # None

WithCount(ss, call, delta) ==
    IF HoldsSlot(call)
    THEN [ss EXCEPT ![call.season[1]].registered_count = @ + delta]
    ELSE ss

SuspensionWritesOnlyTheSlot ==
    \A call \in BagToSet(pending') :
        pending' = pending (+) SetToBag({call})
            => /\ seasons' = WithCount(seasons, call, 1)
               /\ domains' = domains
               /\ wallet' = wallet

FailureTakesTheSlotBack ==
    \A call \in PendingCalls :
        (\/ RegisterResume(call, "Err")
         \/ GiftResume(call, "Err")
         \/ AdminCreateResume(call, "Err"))
            => /\ last'.res = "ProvisioningFailed"
               /\ seasons' = WithCount(seasons, call, -1)
               /\ domains' = domains
               /\ wallet' = wallet

C8_ProvisioningFailureNetEffectNil ==
    [][SuspensionWritesOnlyTheSlot /\ FailureTakesTheSlotBack]_vars

\* A non-admin register failed at provisioning and gave its slot back.
C8_Witness ==
    /\ last.op = "register"
    /\ last.res = "ProvisioningFailed"
    /\ last.season # None
    /\ seasons[last.season[1]].registered_count = 0

\* ---------------------------------------------------------------- C3
\* C3: no non-admin identity owns two distinct name records that are both
\* non-expired.
LiveNamesOf(p) ==
    {n \in DOMAIN domains : domains[n].owner = p /\ domains[n].expiration_time > now}

C3_OneLiveNamePerWallet ==
    \A p \in Principals : ~is_admin(p) => Cardinality(LiveNamesOf(p)) <= 1

\* ---------------------------------------------------------------- C4
\* C4: every entry WalletIndex[identity] = name has a stored record for that
\* name whose owner is that identity.
C4_WalletIndexMatchesOwner ==
    \A p \in DOMAIN wallet :
        wallet[p] \in DOMAIN domains /\ domains[wallet[p]].owner = p

\* ---------------------------------------------------------------- C5
\* C5: an allocation (a resumed register, admin_gift or
\* admin_create_with_address) replaces a stored record only if that record is
\* expired at the moment the new one is committed.
C5_ReplacedOnlyWhenExpired ==
    [][\A n \in DOMAIN domains :
          (pending' # pending /\ domains'[n] # domains[n])
              => domains[n].expiration_time <= now]_vars

\* ---------------------------------------------------------------- C7
\* C7 as stated: after every accepted transfer(name, new_owner) the old owner
\* has no wallet entry and the new owner's entry is the name.
TransferAccepted(c, n, p) == TransferCheck(c, n, p) = "Ok" /\ Transfer(c, n, p)

C7_OldOwnerAbsentAfterTransfer ==
    [][\A c \in Principals, n \in Names, p \in Principals :
          TransferAccepted(c, n, p)
              => /\ Get(wallet', domains[n].owner) = None
                 /\ Get(wallet', p) = Some(n)]_vars

\* C7 as amended: after every accepted transfer(name, new_owner) the new
\* owner's entry is the name, and the old owner has no entry unless the old
\* owner is the new owner.
C7_TransferMovesWalletEntry ==
    [][\A c \in Principals, n \in Names, p \in Principals :
          TransferAccepted(c, n, p)
              => /\ Get(wallet', p) = Some(n)
                 /\ domains[n].owner # p => Get(wallet', domains[n].owner) = None]_vars

\* A transfer was accepted, the new owner holds the entry and some principal
\* (the old owner among them) holds none.
C7_Witness ==
    /\ last.op = "transfer"
    /\ last.res = "Ok"
    /\ \E n \in DOMAIN domains :
          /\ Get(wallet, domains[n].owner) = Some(n)
          /\ \E q \in Principals \ {domains[n].owner} : Get(wallet, q) = None

\* ---------------------------------------------------------------------- C9
\* The results a call returns without having reached the factory.
EarlyErrors ==
    {"InvalidFormat", "Reserved", "ShortNameDenied", "WalletAlreadyOwns",
     "NameUnavailable", "NoSeason", "SeasonFull", "SeasonNotFound", "NotAdmin",
     "RecipientAlreadyOwns", "NoActiveSeason", "AddressNotAuthorized",
     "SeasonNotActive", "InvalidMin", "InvalidMax", "InvalidTotal", "InvalidPrice",
     "ActiveSeasonExists", "NotFound", "Unauthorized", "NewOwnerAlreadyOwns",
     "LastAdmin", "EndpointNotHttps", "EndpointTooLong"}

\* C9: an operation that returns an error before it reaches provisioning
\* leaves every store as it was: name records, WalletIndex, seasons and their
\* counts, the next season id, the allowlists, the admin set, the short-name
\* mode, the approved set and the reserved set.  A step that returns (the set
\* of suspended calls is the same) with such an error changes none of them.
C9_EarlyErrorLeavesStores ==
    [][(pending' = pending /\ last'.res \in EarlyErrors)
           => UNCHANGED stores]_vars

\* A conflict rejection returned by a ledger that is not empty: a name is
\* held, a slot of the season is taken, and the caller is refused a second
\* name.
C9_Witness ==
    /\ last.op = "register" /\ last.res = "WalletAlreadyOwns"
    /\ NameAlice \in DOMAIN domains
    /\ \E id \in DOMAIN seasons : seasons[id].registered_count > 0

\* ---------------------------------------------------------------- C10
\* C10: a register call by an admin caller never changes a season, whether it
\* is rejected, fails at provisioning or succeeds, and is charged no fee; on
\* success the record has was_gifted = true and no origin season.  The admin
\* may already own other names.
AdminRegisterCallLeavesSeasons ==
    \A c \in Principals, n \in Names, a \in Administrators, b \in PaymentBlocks :
        (is_admin(c) /\ RegisterCall(c, n, a, b))
            => /\ seasons' = seasons
               /\ \A call \in BagToSet(pending') :
                     pending' = pending (+) SetToBag({call})
                         => call.fee = 0 /\ call.season = None
               /\ pending' = pending => last'.fee = 0

AdminRegisterResumeLeavesSeasons ==
    \A call \in PendingCalls, o \in ProvisionOutcomes :
        (call.is_admin_caller /\ RegisterResume(call, o))
            => /\ seasons' = seasons
               /\ last'.fee = 0
               /\ o = "Ok" => /\ domains'[call.name].owner = call.caller
                              /\ domains'[call.name].was_gifted
                              /\ domains'[call.name].registration_season_id = None

C10_AdminRegisterIsFree ==
    [][AdminRegisterCallLeavesSeasons /\ AdminRegisterResumeLeavesSeasons]_vars

\* An admin's register succeeded while a season with room was Active, and
\* the admin owns two names.
C10_Witness ==
    /\ last.op = "register"
    /\ last.res = "Ok"
    /\ last.season = None
    /\ \E id \in ActiveSeasonIds : seasons[id].registered_count < seasons[id].total_allowed
    /\ Cardinality({n \in DOMAIN domains :
                       domains[n].owner = InitAdmin /\ domains[n].was_gifted}) = 2

\* ---------------------------------------------------------------- C11
\* The names whose stored record names p as owner.
OwnedBy(p) == {n \in DOMAIN domains : domains[n].owner = p}

\* C11: in every reachable state, an admin_gift whose recipient is not an
\* admin and is already the owner of a name record is rejected: it does not
\* reach the factory and returns an error.
C11_GiftToOwnerRejected ==
    [][\A c \in Principals, n \in Names, r \in Principals, a \in Administrators :
          (~is_admin(r) /\ OwnedBy(r) # {} /\ GiftCall(c, n, r, a))
              => /\ pending' = pending
                 /\ last'.op = "gift"
                 /\ last'.res \in EarlyErrors]_vars

\* ---------------------------------------------------------------- C12
\* The one Active season is the 3-to-5 letter season and has room.
SingleActive35(id) ==
    /\ ActiveSeasonIds = {id}
    /\ seasons[id].min_letters = 3
    /\ seasons[id].max_letters = Some(5)
    /\ seasons[id].registered_count < seasons[id].total_allowed

\* C12: with the policy state as set by init, while the single Active season
\* has min = 3, max = 5 and room, a register call by a non-admin caller that
\* owns no name, for a valid, unreserved, available name of 3 to 5
\* characters, is admitted at that season's unit price and raises that
\* season's registered_count by exactly 1.
C12_RegisterAtSeasonPrice ==
    [][\A c \in Principals, n \in Names, a \in Administrators, b \in PaymentBlocks,
         id \in DOMAIN seasons :
          (/\ short_name_mode = "WhitelistOnly" /\ approved = {}
           /\ reserved = ReservedAtInit
           /\ SingleActive35(id)
           /\ ~is_admin(c) /\ OwnedBy(c) = {} /\ Get(wallet, c) = None
           /\ is_valid_domain_name(n) /\ ~is_reserved_name(n) /\ is_available(n)
           /\ Len(n) \in 3..5
           /\ RegisterCall(c, n, a, b))
              => /\ seasons'[id].registered_count = seasons[id].registered_count + 1
                 /\ \E call \in BagToSet(pending') :
                       /\ pending' = pending (+) SetToBag({call})
                       /\ call.season = Some(id)
                       /\ call.fee = seasons[id].price_icp * E8S]_vars

\* ---------------------------------------------------------------- C13
\* C13: immediately after a register of a name succeeds, get_info(name)
\* shows a record with status Active whose expiration_time is its
\* registration_time plus one year.
C13_RegisteredIsActiveForAYear ==
    [][\A call \in PendingCalls :
          RegisterResume(call, create_domain_canister)
              => /\ call.name \in DOMAIN domains'
                 /\ domains'[call.name].expiration_time > now'
                 /\ domains'[call.name].expiration_time
                        = domains'[call.name].registration_time + Year]_vars

\* A register has just succeeded at a time later than 0 and get_info shows
\* the name Active.
C13_Witness ==
    /\ last.op = "register" /\ last.res = "Ok"
    /\ now > 0
    /\ \E n \in DOMAIN domains :
          /\ domains[n].registration_time = now
          /\ DomainStatus(n) = "Active"

\* ---------------------------------------------------------------- C14
\* The seasons a name of length len may be priced from.
EligibleSeasons(len) ==
    {id \in DOMAIN seasons :
        /\ seasons[id].status = "Active"
        /\ seasons[id].min_letters <= len
        /\ (seasons[id].max_letters # None => len <= seasons[id].max_letters[1])
        /\ seasons[id].registered_count < seasons[id].total_allowed}

\* The cheapest of them; among equally cheap ones, the lowest id.
CheapestLowestId(len) ==
    {id \in EligibleSeasons(len) :
        \A j \in EligibleSeasons(len) :
            \/ seasons[id].price_icp < seasons[j].price_icp
            \/ (seasons[id].price_icp = seasons[j].price_icp /\ id <= j)}

NameOfLength(len) == [i \in 1..len |-> "a"]

\* C14: in every reachable state and for every name length, find_applicable
\* returns an Active season whose range contains the length, that has room,
\* and that is the cheapest such season (the lowest id among equally cheap
\* ones), so its result is determined by the state; it returns none exactly
\* when there is no such season.
C14_FindApplicableCheapest ==
    \A len \in 1..(MaxLetters + 1) :
        find_applicable_season(NameOfLength(len)) = CheapestLowestId(len)

\* A season is Active and has room for names of length 5 but not of length 6,
\* while an earlier season is no longer Active.
C14_Witness ==
    /\ Cardinality(find_applicable_season(NameOfLength(5))) = 1
    /\ find_applicable_season(NameOfLength(6)) = {}
    /\ \E id \in DOMAIN seasons : seasons[id].status # "Active"

\* ---------------------------------------------------------------- C15
\* C15: after init the admin set is never empty, and a remove_admin call made
\* while exactly one admin remains is rejected and leaves the set as it is.
LastAdminKept ==
    \A c \in Principals, p \in Principals :
        (Cardinality(admins) = 1 /\ RemoveAdmin(c, p))
            => /\ last'.op = "remove_admin"
               /\ last'.res \in {"NotAdmin", "LastAdmin"}
               /\ admins' = admins

C15_AdminSetNeverEmpty ==
    /\ [](admins # {})
    /\ [][LastAdminKept]_vars

\* The last admin tried to remove itself after other admins had come and
\* gone: the initial admin is no longer the one that remains.
C15_Witness ==
    /\ last.op = "remove_admin" /\ last.res = "LastAdmin"
    /\ Cardinality(admins) = 1
    /\ InitAdmin \notin admins

\* ---------------------------------------------------------------- C16
\* A step of an admin-privileged entry point called by c.
AdminOpBy(c) ==
    \/ \E req \in SeasonRequests : CreateSeason(c, req)
    \/ \E id \in SeasonIds : DeactivateSeason(c, id)
    \/ \E id \in SeasonIds, addr \in Addresses : AddAddress(c, id, addr)
    \/ \E n \in Names, r \in Principals, a \in Administrators : GiftCall(c, n, r, a)
    \/ \E n \in Names, r \in Principals, a \in Administrators, addr \in Addresses :
          AdminCreateCall(c, n, r, a, addr)
    \/ \E p \in Principals : AddAdmin(c, p)
    \/ \E p \in Principals : RemoveAdmin(c, p)
    \/ \E n \in Names : AddReservedName(c, n)
    \/ \E p \in Principals : ApproveUser(c, p)
    \/ \E p \in Principals : RevokeApproval(c, p)
    \/ \E m \in {"Open", "WhitelistOnly", "Closed"} : SetShortNameMode(c, m)
    \/ \E fee \in NewFees : SetBaseFee(c, fee)

\* C16: every admin-privileged operation called by an identity that is not
\* in the admin set at call time is rejected and changes no state.
C16_NonAdminRejected ==
    [][\A c \in Principals :
          (c \notin admins /\ AdminOpBy(c))
              => /\ last'.res = "NotAdmin"
                 /\ UNCHANGED <<stores, now, pending>>]_vars

\* A former admin is refused: the initial admin, removed from the set, is
\* rejected while a season it created is still stored.
C16_Witness ==
    /\ last.res = "NotAdmin"
    /\ last.op = "deactivate"
    /\ InitAdmin \notin admins
    /\ seasons # <<>>

\* Owner operations in the canister as built: two names are registered with
\* "u2" named as their administrator, then renewed, given endpoints and
\* transferred by every identity.
OwnerNames == {NameAlice, NameCarol}
OwnerEndpoints == {None, Some(Endpoint("https://", 20))}
OwnerNext ==
    \/ Idle /\ next_season_id = 1
            /\ \E req \in RegistryRequests : CreateSeason(InitAdmin, req)
    \/ Idle /\ \E c \in {"admin", "u1"}, n \in OwnerNames, a \in Administrators,
                  b \in PaymentBlocks : RegisterCall(c, n, a, b)
    \/ \E call \in PendingCalls : RegisterResume(call, create_domain_canister)
    \/ Idle /\ \E c \in Principals, n \in OwnerNames, b \in PaymentBlocks :
                  Renew(c, n, b)
    \/ Idle /\ \E c \in Principals, n \in OwnerNames, e \in OwnerEndpoints :
                  SetCustomMcpEndpoint(c, n, e)
    \/ Idle /\ \E c \in Principals, n \in OwnerNames, p \in Principals :
                  Transfer(c, n, p)

SpecOwner == Init /\ [][OwnerNext]_vars

\* renew, set_custom_endpoint or transfer of name n called by c.
OwnerOpBy(c, n) ==
    \/ \E b \in PaymentBlocks : Renew(c, n, b)
    \/ \E e \in Endpoints : SetCustomMcpEndpoint(c, n, e)
    \/ \E p \in Principals : Transfer(c, n, p)

\* C17: renew, set_custom_endpoint and transfer on a name succeed only if the
\* caller is the record's current owner or its current administrator; any
\* other caller, a global admin included, is rejected and the record, the
\* wallet index and the seasons are unchanged.
C17_OwnerOrAdministratorOnly ==
    [][\A c \in Principals, n \in DOMAIN domains :
          (c # domains[n].owner /\ c # domains[n].administrator /\ OwnerOpBy(c, n))
              => /\ last'.res = "Unauthorized"
                 /\ domains' = domains
                 /\ wallet' = wallet
                 /\ seasons' = seasons]_vars

\* The global admin, neither owner nor administrator of alice (owned by "u1",
\* administered by "u2"), has just been refused a transfer of it.
C17_Witness ==
    /\ last.op = "transfer"
    /\ last.res = "Unauthorized"
    /\ DOMAIN domains = {NameAlice}
    /\ domains[NameAlice].owner = "u1"
    /\ domains[NameAlice].administrator = "u2"
    /\ InitAdmin \in admins

\* Gifts under concurrent allocation: the admin opens one season of two slots
\* for names of 3 to 5 letters, may deactivate it, and gifts "u2" a name inside
\* the range and one outside it, while "u1" registers for itself.
GrantNames == {NameAlice, NameIo}
GrantRequests == {Req(3, Some(5), 2, 1)}
GrantNext ==
    \/ \E req \in GrantRequests : next_season_id = 1 /\ CreateSeason(InitAdmin, req)
    \/ \E id \in SeasonIds : DeactivateSeason(InitAdmin, id)
    \/ \E n \in GrantNames, a \in Administrators : GiftCall(InitAdmin, n, "u2", a)
    \/ \E a \in Administrators, b \in PaymentBlocks :
          RegisterCall("u1", NameAlice, a, b)
    \/ \E call \in PendingCalls, o \in ProvisionOutcomes : GiftResume(call, o)
    \/ \E call \in PendingCalls, o \in ProvisionOutcomes : RegisterResume(call, o)

SpecGrant == Init /\ [][GrantNext]_vars

\* The calls that a step has newly suspended at the factory.
NewlySuspended ==
    {call \in BagToSet(pending') : CopiesIn(call, pending') > CopiesIn(call, pending)}

\* A successful gift takes exactly one slot of the season it was admitted to,
\* charges nothing, records the gift and its season, and completes the season
\* when the count has reached total_allowed.
GiftTakesOneSlot(call) ==
    GiftResume(call, create_domain_canister) =>
        /\ call.season # None
        /\ LET id == call.season[1]
           IN /\ id \in DOMAIN seasons
              /\ seasons'[id].registered_count = seasons[id].registered_count + 1
              /\ \A other \in DOMAIN seasons \ {id} : seasons'[other] = seasons[other]
              /\ seasons'[id].status =
                     IF seasons'[id].registered_count >= seasons[id].total_allowed
                     THEN "Completed" ELSE seasons[id].status
              /\ last'.res = "Ok" /\ last'.fee = 0
              /\ domains'[call.name].was_gifted
              /\ domains'[call.name].registration_season_id = Some(id)

\* A gift is admitted only to a season that is Active and has room when the
\* call is made; with no Active season, or none with room, it is rejected.
GiftAdmittedToActiveSeason(n, r, a) ==
    GiftCall(InitAdmin, n, r, a) =>
        /\ \A call \in NewlySuspended :
              /\ call.season # None
              /\ call.season[1] \in ActiveSeasonIds
              /\ seasons[call.season[1]].registered_count
                     < seasons[call.season[1]].total_allowed
        /\ (\A id \in ActiveSeasonIds :
                seasons[id].registered_count >= seasons[id].total_allowed)
              => /\ last'.op = "gift" /\ last'.res # "Ok"
                 /\ UNCHANGED <<stores, now, pending>>

\* C18: a successful admin_gift, for a name inside or outside the Active
\* season's length range, raises that season's registered_count by exactly 1,
\* charges fee 0, records was_gifted = true with that season as origin and
\* marks the season Completed if the count reached total_allowed; admin_gift
\* is rejected when no season is Active or the Active season has no room.
C18_GiftConsumesSeasonSlot ==
    [][/\ \A call \in PendingCalls : GiftTakesOneSlot(call)
       /\ \A n \in GrantNames, r \in Principals, a \in Administrators :
             GiftAdmittedToActiveSeason(n, r, a)]_vars

\* The two-letter name, outside the season's 3-5 range, has just been gifted
\* and took the season's last slot: the season is Completed.
C18_Witness ==
    /\ last.op = "gift" /\ last.res = "Ok"
    /\ NameIo \in DOMAIN domains
    /\ domains[NameIo].was_gifted
    /\ domains[NameIo].registration_season_id = Some(1)
    /\ seasons[1].registered_count = seasons[1].total_allowed
    /\ seasons[1].status = "Completed"

\* Allowlists under concurrent allocation: the admin opens and deactivates
\* seasons of one slot, adds two addresses to any season id, and creates a
\* name for "u2" at either address.
AllowAddresses == {"addr1", "addr2"}
AllowNext ==
    \/ \E req \in LedgerRequests : CreateSeason(InitAdmin, req)
    \/ \E id \in SeasonIds : DeactivateSeason(InitAdmin, id)
    \/ \E id \in SeasonIds, addr \in AllowAddresses : AddAddress(InitAdmin, id, addr)
    \/ \E a \in Administrators, addr \in AllowAddresses :
          AdminCreateCall(InitAdmin, NameAlice, "u2", a, addr)
    \/ \E call \in PendingCalls, o \in ProvisionOutcomes : AdminCreateResume(call, o)

SpecAllowlist == Init /\ [][AllowNext]_vars

\* get_season_addresses: the allowlist of a season id, empty when it has none.
get_season_addresses(id) ==
    IF id \in DOMAIN season_addresses THEN season_addresses[id] ELSE {}

\* A call of admin_create_with_address is admitted only to the Active season
\* and only with an address on that season's allowlist; with the address on
\* no Active season's allowlist it is rejected and nothing changes, and the
\* answer is AddressNotAuthorized when that check is the one that fails.
CreateAdmittedByAllowlist(n, r, a, addr) ==
    AdminCreateCall(InitAdmin, n, r, a, addr) =>
        /\ \A call \in NewlySuspended :
              /\ call.season # None
              /\ call.season[1] \in ActiveSeasonIds
              /\ addr \in get_season_addresses(call.season[1])
        /\ (\A id \in ActiveSeasonIds : addr \notin get_season_addresses(id))
              => /\ last'.op = "admin_create" /\ last'.res # "Ok"
                 /\ UNCHANGED <<stores, now, pending>>
                 /\ (/\ AdminAdmission(InitAdmin, n, r) = "Ok"
                     /\ \E id \in ActiveSeasonIds :
                           seasons[id].registered_count < seasons[id].total_allowed)
                       => last'.res = "AddressNotAuthorized"

\* A record created by admin_create_with_address is not a gift, names the
\* season it was admitted to, whose allowlist holds its address, and takes
\* one slot of that season.
CreatedTakesOneSlot(call) ==
    AdminCreateResume(call, create_domain_canister) =>
        /\ call.season # None /\ call.address # None
        /\ LET id == call.season[1]
           IN /\ call.address[1] \in get_season_addresses(id)
              /\ seasons'[id].registered_count = seasons[id].registered_count + 1
              /\ \A other \in DOMAIN seasons \ {id} : seasons'[other] = seasons[other]
              /\ last'.res = "Ok"
              /\ domains'[call.name].was_gifted = FALSE
              /\ domains'[call.name].registration_season_id = Some(id)

\* C19: admin_create_with_address succeeds only if recipient_address is in
\* the allowlist of the season Active at call time; otherwise it is rejected
\* (AddressNotAuthorized) with no state change; every record it creates has
\* was_gifted = false and consumes one slot of that season.
C19_CreateRequiresAllowlistedAddress ==
    [][/\ \A n \in GrantNames, r \in Principals, a \in Administrators,
            addr \in AllowAddresses : CreateAdmittedByAllowlist(n, r, a, addr)
       /\ \A call \in PendingCalls : CreatedTakesOneSlot(call)]_vars

\* alice has just been created at an address of season 2's allowlist while
\* season 1, deactivated, lists some address too.
C19_Witness ==
    /\ last.op = "admin_create" /\ last.res = "Ok"
    /\ NameAlice \in DOMAIN domains
    /\ domains[NameAlice].was_gifted = FALSE
    /\ domains[NameAlice].registration_season_id = Some(2)
    /\ seasons[2].registered_count = 1
    /\ get_season_addresses(1) # {}
    /\ get_season_addresses(2) # {}

\* An add to a season that is missing, Completed or Deactivated is rejected
\* and leaves every allowlist as it was.
AddOutsideActiveRejected(id, addr) ==
    (AddAddress(InitAdmin, id, addr) /\ id \notin ActiveSeasonIds)
        => /\ last'.op = "add_address" /\ last'.res # "Ok"
           /\ season_addresses' = season_addresses

\* No step takes an address off a season's allowlist, and a step that puts
\* one on finds the season Active.
AllowlistOnlyGrows(id) ==
    /\ get_season_addresses(id) \subseteq get_season_addresses(id)'
    /\ get_season_addresses(id)' # get_season_addresses(id) => id \in ActiveSeasonIds

\* C20: an address is added to a season's allowlist only while that season
\* is Active (an add for a missing, Completed or Deactivated season is
\* rejected and leaves the allowlist unchanged), and every season's allowlist
\* only grows: an address once added stays queryable after the season becomes
\* Completed or Deactivated.
C20_AllowlistGrowsOnlyWhileActive ==
    [][/\ \A id \in SeasonIds, addr \in AllowAddresses : AddOutsideActiveRejected(id, addr)
       /\ \A id \in SeasonIds : AllowlistOnlyGrows(id)]_vars

\* Season 1 was filled by a creation at a listed address and is Completed;
\* its allowlist is still there, and an add to it has just been refused.
C20_Witness ==
    /\ last.op = "add_address" /\ last.res = "SeasonNotActive"
    /\ 1 \in DOMAIN seasons
    /\ seasons[1].status = "Completed"
    /\ get_season_addresses(1) # {}
    /\ get_season_addresses(1) # AllowAddresses

\* Renewal in the canister as built: the clock runs, two names are registered
\* at payment block 7 and renewed by every identity at payment block 8.
RenewNames == {NameAlice, NameCarol}
RenewBlocks == {8}
RenewNext ==
    \/ Idle /\ next_season_id = 1
            /\ \E req \in RegistryRequests : CreateSeason(InitAdmin, req)
    \/ Idle /\ \E c \in {"admin", "u1"}, n \in RenewNames, a \in Administrators,
                  b \in PaymentBlocks : RegisterCall(c, n, a, b)
    \/ \E call \in PendingCalls : RegisterResume(call, create_domain_canister)
    \/ Idle /\ \E c \in Principals, n \in RenewNames, b \in RenewBlocks :
                  Renew(c, n, b)
    \/ Idle /\ Tick

SpecRenew == Init /\ [][RenewNext]_vars

\* A renewal of n by its owner or administrator adds one year to the stored
\* expiration_time, records the payment block, and writes nothing else.
RenewExtendsStoredTerm(c, n, b) ==
    (Renew(c, n, b) /\ (c = domains[n].owner \/ c = domains[n].administrator))
        => /\ last'.op = "renew" /\ last'.res = "Ok"
           /\ domains' = [domains EXCEPT
                             ![n] = [@ EXCEPT !.expiration_time = @ + Year,
                                              !.last_payment_block = b]]
           /\ seasons' = seasons
           /\ wallet' = wallet

\* C21: a successful renew sets the record's expiration_time to its previous
\* expiration_time plus one year (not now plus one year, so an expired record
\* can remain expired) and records the payment reference; it changes no other
\* field of the record, no season and no wallet index entry.
C21_RenewExtendsFromStoredExpiration ==
    [][\A c \in Principals, n \in DOMAIN domains, b \in RenewBlocks :
          RenewExtendsStoredTerm(c, n, b)]_vars

\* alice, expired for more than a year, has just been renewed and is still
\* expired.
C21_Witness ==
    /\ last.op = "renew" /\ last.res = "Ok"
    /\ NameAlice \in DOMAIN domains
    /\ domains[NameAlice].last_payment_block = 8
    /\ domains[NameAlice].expiration_time = domains[NameAlice].registration_time + 2 * Year
    /\ domains[NameAlice].expiration_time <= now

\* A transfer to a non-admin that has a wallet entry is rejected; an accepted
\* transfer writes the owner field of the one record and no season.
TransferWritesOwnerOnly(c, n, p) ==
    Transfer(c, n, p) =>
        /\ (p \notin admins /\ p \in DOMAIN wallet)
              => /\ last'.res # "Ok"
                 /\ UNCHANGED <<stores, now, pending>>
        /\ last'.res = "Ok"
              => /\ n \in DOMAIN domains
                 /\ domains' = [domains EXCEPT ![n] = [@ EXCEPT !.owner = p]]
                 /\ seasons' = seasons

\* C22: transfer(name, new_owner) is rejected when new_owner is not an admin
\* and has a wallet index entry; a successful transfer changes only the owner
\* field of that record and changes no season.
C22_TransferChangesOwnerOnly ==
    [][\A c \in Principals, n \in OwnerNames, p \in Principals :
          TransferWritesOwnerOnly(c, n, p)]_vars

\* The administrator "u2" of alice, itself the owner of carol, has just been
\* refused as alice's new owner.
C22_Witness ==
    /\ last.op = "transfer" /\ last.res = "NewOwnerAlreadyOwns"
    /\ DOMAIN domains = OwnerNames
    /\ domains[NameCarol].owner = "u2"
    /\ Get(wallet, "u2") = Some(NameCarol)
    /\ domains[NameAlice].owner = "u1"

\* The season ledger in the canister as built: the admin and "u1" submit every
\* request, valid or not; the admin deactivates seasons and fills allowlists;
\* "u1" and "u2" register a name each, which takes slots and completes seasons.
SeasonsNext ==
    \/ Idle /\ \E c \in {"admin", "u1"}, req \in SeasonRequests : CreateSeason(c, req)
    \/ Idle /\ \E id \in SeasonIds : DeactivateSeason(InitAdmin, id)
    \/ Idle /\ \E id \in SeasonIds, addr \in Addresses : AddAddress(InitAdmin, id, addr)
    \/ Idle /\ \E a \in Administrators, b \in PaymentBlocks :
                  \/ RegisterCall("u1", NameAlice, a, b)
                  \/ RegisterCall("u2", NameCarol, a, b)
    \/ \E call \in PendingCalls : RegisterResume(call, create_domain_canister)

SpecSeasons == Init /\ [][SeasonsNext]_vars

\* What create_season refuses in a request.
BadSeasonRequest(req) ==
    \/ req.min_letters < 1 \/ req.min_letters > 64
    \/ req.max_letters # None
          /\ (req.max_letters[1] < req.min_letters \/ req.max_letters[1] > 64)
    \/ req.total_allowed = 0
    \/ req.price_icp = 0

\* create_season by the admin is rejected exactly for a bad request or while a
\* season is Active; otherwise it adds one season, Active with no slot taken.
CreateRejectedExactlyWhen(req) ==
    (CreateSeason(InitAdmin, req) /\ InitAdmin \in admins) =>
        IF BadSeasonRequest(req) \/ \E id \in DOMAIN seasons : seasons[id].status = "Active"
        THEN /\ last'.op = "create_season" /\ last'.res # "Ok"
             /\ UNCHANGED <<stores, now, pending>>
        ELSE /\ last'.op = "create_season" /\ last'.res = "Ok"
             /\ \E id \in DOMAIN seasons' \ DOMAIN seasons :
                   /\ DOMAIN seasons' = DOMAIN seasons \cup {id}
                   /\ seasons'[id].status = "Active"
                   /\ seasons'[id].registered_count = 0
                   /\ seasons'[id].min_letters = req.min_letters
                   /\ seasons'[id].max_letters = req.max_letters
                   /\ seasons'[id].total_allowed = req.total_allowed
                   /\ seasons'[id].price_icp = req.price_icp
             /\ \A id \in DOMAIN seasons : seasons'[id] = seasons[id]

\* C23: create_season by an admin is rejected exactly when another season is
\* Active, or min is outside [1,64], or max is present and (max < min or
\* max > 64), or capacity is 0, or price is 0; otherwise it succeeds and
\* creates an Active season with registered_count 0, in particular whenever
\* every existing season is Completed or Deactivated.
C23_CreateSeasonRejectedExactlyWhen ==
    [][\A req \in SeasonRequests : CreateRejectedExactlyWhen(req)]_vars

\* Season 2 has just been created while season 1, filled by a registration,
\* is Completed.
C23_Witness ==
    /\ last.op = "create_season" /\ last.res = "Ok" /\ last.season = Some(2)
    /\ seasons[1].status = "Completed"
    /\ seasons[2].status = "Active"
    /\ seasons[2].registered_count = 0

\* The ledger holds exactly the ids handed out so far, each under its own key.
SeasonIdsAreDense ==
    /\ DOMAIN seasons = 1..(next_season_id - 1)
    /\ \A id \in DOMAIN seasons : seasons[id].season_id = id

\* A successful create_season returns the number of seasons created so far
\* plus one, an id not yet in the ledger; a rejected one leaves NEXT_SEASON_ID
\* alone; no step takes a season out of the ledger.
SeasonIdsInCreationOrder ==
    /\ \A c \in Principals, req \in SeasonRequests :
          CreateSeason(c, req) =>
              IF last'.res = "Ok"
              THEN /\ last'.season = Some(Cardinality(DOMAIN seasons) + 1)
                   /\ last'.season[1] \notin DOMAIN seasons
                   /\ last'.season[1] \in DOMAIN seasons'
              ELSE /\ next_season_id' = next_season_id
                   /\ seasons' = seasons
    /\ DOMAIN seasons \subseteq DOMAIN seasons'

\* C24: season ids are assigned 1, 2, 3, ... in creation order: the k-th
\* successful create_season returns k, no id is returned twice, a rejected
\* create_season consumes no id, and no season is ever removed.
C24_SeasonIdsMonotone ==
    [](SeasonIdsAreDense) /\ [][SeasonIdsInCreationOrder]_vars

\* The second successful create_season has returned 2, after rejected ones;
\* season 1 is still in the ledger.
C24_Witness ==
    /\ last.op = "create_season" /\ last.res = "Ok" /\ last.season = Some(2)
    /\ next_season_id = 3
    /\ DOMAIN seasons = {1, 2}
    /\ seasons[1].status = "Deactivated"
    /\ seasons[1].season_id = 1 /\ seasons[2].season_id = 2

\* deactivate(id) by the admin writes the status of season id and nothing
\* else; for an id not in the ledger it answers not-found and writes nothing.
DeactivateWritesStatusOnly(id) ==
    (DeactivateSeason(InitAdmin, id) /\ InitAdmin \in admins) =>
        IF id \in DOMAIN seasons
        THEN /\ last'.op = "deactivate" /\ last'.res = "Ok"
             /\ seasons' = [seasons EXCEPT ![id] = [@ EXCEPT !.status = "Deactivated"]]
             /\ UNCHANGED <<domains, wallet, season_addresses, next_season_id, admins,
                            short_name_mode, approved, reserved, base_fee, now, pending>>
        ELSE /\ last'.op = "deactivate" /\ last'.res = "SeasonNotFound"
             /\ UNCHANGED <<stores, now, pending>>

\* C25: a successful deactivate(season_id) changes only the status of that
\* season: every name record (those whose origin is that season included),
\* the wallet index, the season's registered_count and its allowlist are
\* unchanged; deactivate of an unknown id returns NotFound with no change.
C25_DeactivateChangesStatusOnly ==
    [][\A id \in SeasonIds : DeactivateWritesStatusOnly(id)]_vars

\* Season 1, with one of its two slots taken by alice and an address on its
\* allowlist, has just been deactivated: record, count and allowlist remain.
C25_Witness ==
    /\ last.op = "deactivate" /\ last.res = "Ok" /\ last.season = Some(1)
    /\ seasons[1].status = "Deactivated"
    /\ seasons[1].total_allowed = 2
    /\ seasons[1].registered_count = 1
    /\ NameAlice \in DOMAIN domains
    /\ domains[NameAlice].registration_season_id = Some(1)
    /\ Get(wallet, "u1") = Some(NameAlice)
    /\ get_season_addresses(1) # {}

\* The number of calls at the factory that passed the capacity check of
\* season id and have not added their slot to its registered_count: register
\* adds its slot before the await (lines 346-347), admin_gift and
\* admin_create_with_address after it (lines 493-499, 597-601).
UncountedFor(id) ==
    LET held == {call \in PendingCalls : call.season = Some(id) /\ call.op # "register"}
        Sum[S \in SUBSET held] ==
            IF S = {} THEN 0
            ELSE LET call == CHOOSE x \in S : TRUE
                 IN CopiesIn(call, pending) + Sum[S \ {call}]
    IN Sum[held]

\* No two calls are at the factory together.
AtMostOneCallAtFactory == BagCardinality(pending) <= 1

\* Every call at the factory that passed a season's capacity check has a slot
\* of its own: the slots counted and those still to be counted fit the
\* capacity.
NoSlotSharedBySuspendedCalls ==
    \A id \in DOMAIN seasons :
        UncountedFor(id) > 0
            => seasons[id].registered_count + UncountedFor(id) <= seasons[id].total_allowed

\* While a call is at the factory the only step is its own continuation: the
\* capacity check and the statements after the await are one message.
MessageRunsAlone ==
    pending # EmptyBag =>
        \E call \in PendingCalls : pending' = pending (-) SetToBag({call})

\* register adds its slot with the check, before the await; admin_gift and
\* admin_create_with_address add theirs in the continuation, to the count
\* their check read, which is still below the capacity.
SlotTakenWithItsCheck ==
    /\ \A call \in NewlySuspended :
          (call.op = "register" /\ call.season # None) =>
              /\ seasons[call.season[1]].registered_count
                     < seasons[call.season[1]].total_allowed
              /\ seasons'[call.season[1]].registered_count
                     = seasons[call.season[1]].registered_count + 1
    /\ \A call \in PendingCalls :
          (pending' = pending (-) SetToBag({call}) /\ last'.res = "Ok"
             /\ call.season # None) =>
              IF call.op = "register"
              THEN seasons'[call.season[1]].registered_count
                       = seasons[call.season[1]].registered_count
              ELSE /\ seasons[call.season[1]].registered_count
                          < seasons[call.season[1]].total_allowed
                   /\ seasons'[call.season[1]].registered_count
                          = seasons[call.season[1]].registered_count + 1

C27_IdleActiveSeasonHasRoom ==
    pending = EmptyBag
        => \A id \in DOMAIN seasons :
              seasons[id].status = "Active"
                  => seasons[id].registered_count < seasons[id].total_allowed

\* No call is suspended; season 1 was filled by an allocation that has just
\* completed and is Completed, and season 2 is Active with room.
C27_Witness ==
    /\ pending = EmptyBag
    /\ last.res = "Ok" /\ last.op \in {"register", "gift", "admin_create"}
    /\ DOMAIN seasons = {1, 2}
    /\ seasons[1].status = "Completed"
    /\ seasons[1].registered_count = seasons[1].total_allowed
    /\ seasons[2].status = "Active"
    /\ seasons[2].registered_count < seasons[2].total_allowed

\* C28: once a season's status is Completed or Deactivated, no operation ever
\* increments its registered_count, also not a register, admin_gift or
\* admin_create_with_address call that selected the season while it was
\* Active and resumes from provisioning after the status changed.
C28_ClosedSeasonCountNeverGrows ==
    [][\A id \in DOMAIN seasons :
          seasons[id].status \in {"Completed", "Deactivated"}
              => seasons'[id].registered_count <= seasons[id].registered_count]_vars

\* The rollback of a register call that failed at provisioning takes one off
\* the count of the season it reserved in, which stays at or above zero, and
\* leaves that season's status and every other season as they were.
RollbackKeepsStatus(call) ==
    (RegisterResume(call, "Err") /\ call.season # None)
        => LET id == call.season[1]
           IN /\ seasons[id].registered_count >= 1
              /\ seasons' = [seasons EXCEPT ![id] =
                                 [@ EXCEPT !.registered_count = @ - 1]]
              /\ seasons'[id].status = seasons[id].status

\* C29: the rollback of a reservation after a provisioning failure never
\* takes a season's registered_count below zero and never changes a season's
\* status: a season that became Completed or Deactivated during the
\* suspension stays so, with its count decremented by one.
C29_RollbackKeepsStatusAndSign ==
    /\ [](\A id \in DOMAIN seasons : seasons[id].registered_count >= 0)
    /\ [][\A call \in PendingCalls : RollbackKeepsStatus(call)]_vars

\* A register call held the only slot of season 1 while a gift completed the
\* season; the register then failed at provisioning: the season is still
\* Completed, with the slot given back.
C29_Witness ==
    /\ last.op = "register" /\ last.res = "ProvisioningFailed"
    /\ last.season = Some(1)
    /\ seasons[1].status = "Completed"
    /\ seasons[1].registered_count = seasons[1].total_allowed

\* C30: for every stored record and every time now, if the record is expired
\* (expiration_time <= now, the status derivation reports Expired) then the
\* name passes the availability check of register, admin_gift and
\* admin_create_with_address at that same now; and if the record is reported
\* Active the name fails it.
C30_ExpiredIffAvailable ==
    \A n \in DOMAIN domains :
        /\ (domains[n].expiration_time <= now /\ DomainStatus(n) = "Expired")
              => is_available(n)
        /\ DomainStatus(n) = "Active" => ~is_available(n)

\* Registration against a factory that answers every call.  One season of
\* four slots is opened once and may be deactivated; "u1" and "u2" register
\* two names, each caller waiting for the answer to its call before it calls
\* again; the factory answers Ok or Err, and answers every suspended call.
LiveNames == {NameAlice, NameCarol}
LiveCallers == {"u1", "u2"}
LiveCalls ==
    {[op |-> "register", caller |-> c, name |-> n, who |-> c, administrator |-> a,
      payment_block |-> b, address |-> None, season |-> Some(id),
      fee |-> req.price_icp * E8S, is_admin_caller |-> FALSE] :
        c \in LiveCallers, n \in LiveNames, a \in Administrators, b \in PaymentBlocks,
        id \in SeasonIds, req \in RegistryRequests}
FactoryAnswers(call) == \E o \in ProvisionOutcomes : RegisterResume(call, o)
LiveNext ==
    \/ \E req \in RegistryRequests : next_season_id = 1 /\ CreateSeason(InitAdmin, req)
    \/ \E id \in SeasonIds : DeactivateSeason(InitAdmin, id)
    \/ \E c \in LiveCallers, n \in LiveNames, a \in Administrators, b \in PaymentBlocks :
          /\ \A call \in PendingCalls : call.caller # c
          /\ RegisterCall(c, n, a, b)
    \/ \E call \in PendingCalls : FactoryAnswers(call)

SpecLive ==
    Init /\ [][LiveNext]_vars /\ \A call \in LiveCalls : WF_vars(FactoryAnswers(call))

\* The step that takes a register call holding a slot out of the suspended
\* calls takes out that one call and suspends none (the factory is not called
\* again), and either commits the record with the slot's season as origin,
\* the count standing, or gives the one slot back and writes no record.
ReservationResolvedOnce(call) ==
    (call.op = "register" /\ call.season # None
     /\ CopiesIn(call, pending') < CopiesIn(call, pending))
        => LET id == call.season[1]
           IN /\ pending' = pending (-) SetToBag({call})
              /\ \/ /\ last'.res = "Ok"
                    /\ call.name \in DOMAIN domains'
                    /\ domains'[call.name].owner = call.caller
                    /\ domains'[call.name].registration_season_id = call.season
                    /\ seasons'[id].registered_count = seasons[id].registered_count
                 \/ /\ last'.res = "ProvisioningFailed"
                    /\ domains' = domains
                    /\ seasons'[id].registered_count = seasons[id].registered_count - 1

\* A season's count goes down only by one, in the step that takes a register
\* call holding a slot of that season out of the suspended calls.
SlotReleasedOnlyByItsCall ==
    \A id \in DOMAIN seasons :
        seasons'[id].registered_count < seasons[id].registered_count
            => /\ seasons'[id].registered_count = seasons[id].registered_count - 1
               /\ \E call \in PendingCalls :
                     /\ call.op = "register" /\ call.season = Some(id)
                     /\ pending' = pending (-) SetToBag({call})

\* C31: assuming the resource factory eventually answers every call, every
\* season slot reserved by a register call is eventually resolved: the call
\* either commits a record whose origin is that season or decrements that
\* season's registered_count exactly once, and the factory is invoked at most
\* once per call (no retry).
C31_ReservationEventuallyResolved ==
    /\ \A call \in LiveCalls : BagIn(call, pending) ~> ~BagIn(call, pending)
    /\ [](PendingCalls \subseteq LiveCalls)
    /\ [][/\ \A call \in PendingCalls : ReservationResolvedOnce(call)
          /\ SlotReleasedOnlyByItsCall]_vars

\* A register call of "u1" failed at provisioning and gave its slot back while
\* "u2", whose call committed, owns a name with season 1 as origin.
C31_Witness ==
    /\ pending = EmptyBag
    /\ last.op = "register" /\ last.res = "ProvisioningFailed"
    /\ \E n \in DOMAIN domains :
          /\ domains[n].owner = "u2"
          /\ domains[n].registration_season_id = Some(1)
    /\ Get(wallet, "u1") = None
    /\ seasons[1].registered_count = 1

\* ---------------------------------------------------------------------------
\* The short-name policy: the controller switches the mode, approves and
\* revokes callers, promotes and demotes an admin, and every principal tries to
\* register short and long names, one call at a time.
ShortModes == {"Open", "WhitelistOnly", "Closed"}
ShortRequests == {Req(1, None, 3, 1)}
\* A reserved name of three letters.
NameWww == <<"w", "w", "w">>
ShortNames == {NameAbc, NameWide, NameIcp, NameWww}
ShortUsers == {"u1", "u2"}

ShortNext ==
    \/ Idle /\ next_season_id = 1
            /\ \E req \in ShortRequests : CreateSeason(InitAdmin, req)
    \/ Idle /\ \E m \in ShortModes : SetShortNameMode(InitAdmin, m)
    \/ Idle /\ \E u \in ShortUsers : ApproveUser(InitAdmin, u)
    \/ Idle /\ \E u \in ShortUsers : RevokeApproval(InitAdmin, u)
    \/ Idle /\ AddAdmin(InitAdmin, "u2")
    \/ Idle /\ RemoveAdmin(InitAdmin, "u2")
    \/ Idle /\ \E c \in Principals, n \in ShortNames, a \in Administrators,
                  b \in PaymentBlocks : RegisterCall(c, n, a, b)
    \/ \E call \in PendingCalls : RegisterResume(call, create_domain_canister)

SpecShort == Init /\ [][ShortNext]_vars

\* The policy as the stored mode, approvals and admin set decide it.
ShortNameAllowed(n, c) ==
    \/ ByteLen(n) >= 5
    \/ c \in admins
    \/ short_name_mode = "Open"
    \/ (short_name_mode = "WhitelistOnly" /\ c \in approved)

PolicyDecidesFromStoredState ==
    \A n \in ShortNames \cup {NameIo, NameTest, NameAlice}, c \in Principals :
        can_register_short_domain(n, c) <=> ShortNameAllowed(n, c)

DeniedShortRegisterIsRejected ==
    \A c \in Principals, n \in ShortNames, a \in Administrators, b \in PaymentBlocks :
        (RegisterCall(c, n, a, b) /\ ~ShortNameAllowed(n, c)) =>
            /\ last'.op = "register"
            /\ last'.res \in {"InvalidFormat", "Reserved", "ShortNameDenied"}
            /\ (n \notin reserved => last'.res = "ShortNameDenied")
            /\ UNCHANGED <<stores, now, pending>>

AllowedRegisterPassesThePolicy ==
    \A c \in Principals, n \in ShortNames, a \in Administrators, b \in PaymentBlocks :
        (RegisterCall(c, n, a, b) /\ ShortNameAllowed(n, c)) =>
            (pending' = pending => last'.res # "ShortNameDenied")

\* C32: a caller may register a name exactly when the name is at least five
\* bytes long, or the caller is an admin, or the mode is Open, or the mode is
\* WhitelistOnly and the caller is approved; under Closed a non-admin caller is
\* refused every shorter name. A register call the policy refuses returns the
\* short-name error and writes nothing, whatever mode changes, approvals and
\* revocations came before.
C32_ShortNamePolicy ==
    /\ [](PolicyDecidesFromStoredState)
    /\ [][DeniedShortRegisterIsRejected /\ AllowedRegisterPassesThePolicy]_vars

\* An approved caller is refused a three-letter name after the mode was closed,
\* while a longer name of the same caller is already registered.
C32_Witness ==
    /\ last.op = "register" /\ last.res = "ShortNameDenied"
    /\ short_name_mode = "Closed"
    /\ approved = ShortUsers
    /\ admins = {InitAdmin}
    /\ NameAbc \notin DOMAIN domains
    /\ NameWide \in DOMAIN domains

\* ---------------------------------------------------------------------------
\* The count of a season against the allocations made in it.

\* The register calls suspended at the factory with a slot reserved in `id`.
ReservationsIn(id, bag) ==
    LET held == {call \in BagToSet(bag) : call.op = "register" /\ call.season = Some(id)}
        Sum[S \in SUBSET held] ==
            IF S = {} THEN 0
            ELSE LET call == CHOOSE x \in S : TRUE
                 IN CopiesIn(call, bag) + Sum[S \ {call}]
    IN Sum[held]

\* The step takes `call` out of the suspended set with a success.
CommitOf(call) ==
    /\ BagIn(call, pending)
    /\ pending' = pending (-) SetToBag({call})
    /\ last'.res = "Ok"

\* The allocations the step commits to season `id`: one when a call that
\* selected `id` leaves the suspended set with a success, none otherwise.
CommittedIn(id) ==
    IF \E call \in PendingCalls : CommitOf(call) /\ call.season = Some(id)
    THEN 1 ELSE 0

CountBefore(id) == IF id \in DOMAIN seasons THEN seasons[id].registered_count ELSE 0

\* Every step changes a season's count by the allocations it commits to the
\* season plus the change in the reservations held in it; a season enters the
\* ledger with count 0.
CountFollowsAllocations ==
    \A id \in DOMAIN seasons' :
        seasons'[id].registered_count - CountBefore(id)
            = CommittedIn(id) + ReservationsIn(id, pending') - ReservationsIn(id, pending)

\* A commit writes the record of its name with the call's season as origin,
\* and an origin is written in no other step.
OriginWrittenByCommit ==
    /\ \A call \in PendingCalls :
          CommitOf(call) =>
              /\ call.name \in DOMAIN domains'
              /\ domains'[call.name].registration_season_id = call.season
    /\ \A n \in DOMAIN domains' :
          (n \notin DOMAIN domains
             \/ domains'[n].registration_season_id # domains[n].registration_season_id) =>
              \E call \in PendingCalls : CommitOf(call) /\ call.name = n

OriginSeasonExists ==
    \A n \in DOMAIN domains :
        domains[n].registration_season_id # None =>
            domains[n].registration_season_id[1] \in DOMAIN seasons

\* C33: the ledger is empty at first and every step keeps, for each season,
\* registered_count equal to the allocations committed to it so far (registers
\* of non-admin callers, gifts and admin creations, overwritten or not) plus
\* the register calls suspended with a reservation in it; the origin season of
\* every record is a season of the ledger.
C33_CountEqualsAllocationsPlusReservations ==
    /\ seasons = <<>> /\ domains = <<>> /\ pending = EmptyBag
    /\ [][CountFollowsAllocations /\ OriginWrittenByCommit]_vars
    /\ [](OriginSeasonExists)

\* A gift and a register call of one name were suspended together and the
\* gift has committed: season 1, of capacity 1, counts the gift's allocation
\* and the reservation of the register call still suspended.
C33_Witness ==
    /\ 1 \in DOMAIN seasons
    /\ seasons[1].registered_count = 2
    /\ seasons[1].total_allowed = 1
    /\ ReservationsIn(1, pending) = 1
    /\ Cardinality({n \in DOMAIN domains : domains[n].registration_season_id = Some(1)}) = 1
    /\ \A n \in DOMAIN domains : domains[n].was_gifted

\* ---------------------------------------------------------------------------
\* The wallet index across a transfer.

\* An accepted transfer of `n` leaves every entry that maps an identity to
\* another name as it was.
TransferKeepsOtherEntries ==
    \A c \in Principals, n \in OwnerNames, p \in Principals :
        (Transfer(c, n, p) /\ last'.res = "Ok") =>
            \A w \in DOMAIN wallet :
                wallet[w] # n => (w \in DOMAIN wallet' /\ wallet'[w] = wallet[w])

\* C34: a successful transfer of a name changes only the wallet entries that
\* concern that name: the old owner's entry is removed only if it maps to the
\* name, and every entry mapping an identity to another name is unchanged.
C34_TransferTouchesOnlyEntriesOfTheName == [][TransferKeepsOtherEntries]_vars

\* ---------------------------------------------------------------------------
\* The canister as built.  create_domain_canister awaits nothing, so every
\* call is one message: no call starts while another is at the factory, and
\* the factory's answer is the stub's.  The admin creates and deactivates
\* seasons and fills allowlists; "admin" and "u1" register, "u2" receives
\* gifts and admin creations; time passes, so that records expire and are
\* replaced.
BuildNames == {NameAlice, NameCarol}
BuildRequests == {Req(3, Some(5), 2, 1)}
BuildNext ==
    \/ Idle /\ \E req \in BuildRequests : CreateSeason(InitAdmin, req)
    \/ Idle /\ \E id \in DOMAIN seasons : DeactivateSeason(InitAdmin, id)
    \/ Idle /\ \E addr \in Addresses : AddAddress(InitAdmin, 1, addr)
    \/ Idle /\ \E a \in Administrators, b \in PaymentBlocks :
                  \/ RegisterCall("admin", NameAlice, a, b)
                  \/ RegisterCall("u1", NameCarol, a, b)
    \/ Idle /\ \E n \in BuildNames, a \in Administrators : GiftCall(InitAdmin, n, "u2", a)
    \/ Idle /\ \E a \in Administrators, addr \in Addresses :
                  AdminCreateCall(InitAdmin, NameAlice, "u2", a, addr)
    \/ Idle /\ Tick
    \/ \E call \in PendingCalls : RegisterResume(call, create_domain_canister)
    \/ \E call \in PendingCalls : GiftResume(call, create_domain_canister)
    \/ \E call \in PendingCalls : AdminCreateResume(call, create_domain_canister)

SpecBuild == Init /\ [][BuildNext]_vars

C5_Witness ==
    /\ pending = EmptyBag
    /\ last.op = "gift" /\ last.res = "Ok"
    /\ Get(wallet, "admin") = Some(NameAlice)
    /\ NameAlice \in DOMAIN domains
    /\ domains[NameAlice].owner = "u2"
    /\ domains[NameAlice].registration_time = 2

C28_Witness ==
    /\ pending = EmptyBag
    /\ DOMAIN seasons = {1, 2}
    /\ seasons[1].status = "Deactivated"
    /\ seasons[1].registered_count = 1
    /\ seasons[2].registered_count = 1
    /\ last.res = "Ok" /\ last.season = Some(2)

====
